---- MODULE Spec2Model ----
(***************************************************************************)
(* External scanner of the zsh grammar (scanner part of                    *)
(* src/clean_expansion_body.js, C code from line 50 on) together with the  *)
(* part of the host contract it is used under.                             *)
(*                                                                         *)
(* Characters are one-character strings; the lookahead at end of input is  *)
(* NUL (inputs contain no NUL character, so `lookahead == 0` and           *)
(* `lexer->eof(lexer)` coincide).  Positions count consumed characters.    *)
(* skip() and advance() differ only in where the token starts, which no    *)
(* handler reads back, so both move the position by one.                   *)
(***************************************************************************)
EXTENDS Integers, Sequences, FiniteSets, TLC

VARIABLES
    scanner,    \* the Scanner struct
    input,      \* the document being lexed: its text, the calls of its parse
    pos,        \* lexer position at which the next token starts
    last,       \* outcome of the most recent call made on the scanner
    step,       \* position in the parse script (scripted parser)
    perr,       \* the scripted parse met a token the grammar does not expect
    hist,       \* heredoc delimiters in declaration order and in ending order
    buffer,     \* the snapshot taken by the most recent serialize
    replica,    \* a second scanner instance, created fresh and deserialized
    host        \* process status: "running", "aborted" or "undefined"

vars ==
    <<scanner, input, pos, last, step, perr, hist, buffer, replica, host>>

-----------------------------------------------------------------------------
(* Program constants *)

CTX_NONE ==
    0
CTX_PARAMETER ==
    1
CTX_ARITHMETIC ==
    2
CTX_COMMAND ==
    3
CTX_TEST ==
    4
CTX_BRACE_EXPANSION ==
    5
CTX_PARAMETER_PATTERN_SUFFIX ==
    6
CTX_PARAMETER_PATTERN_SUBSTITUTE ==
    7

\* TREE_SITTER_SERIALIZATION_BUFFER_SIZE of the host
BufferSize ==
    1024

\* number of values of a char / uint8_t
ByteRange ==
    256

\* the seven fixed bytes serialize writes first
HeaderSize ==
    7

\* 3 flag bytes + sizeof(uint32_t) per heredoc record
HeredocFixed ==
    7

NUL ==
    "NUL"

\* the backquote character (it cannot be written inside a string)
BACKTICK ==
    "BQ"

TokenType ==
    { "HEREDOC_START", "SIMPLE_HEREDOC_BODY", "HEREDOC_BODY_BEGINNING",
      "HEREDOC_CONTENT", "HEREDOC_END", "FILE_DESCRIPTOR", "EMPTY_VALUE",
      "CONCAT", "VARIABLE_NAME", "SIMPLE_VARIABLE_NAME",
      "SPECIAL_VARIABLE_NAME", "TEST_OPERATOR", "REGEX", "REGEX_NO_SLASH",
      "REGEX_NO_SPACE", "EXPANSION_WORD", "EXTGLOB_PATTERN", "RAW_DOLLAR",
      "BARE_DOLLAR", "PEEK_BARE_DOLLAR", "BRACE_START",
      "IMMEDIATE_DOUBLE_HASH", "ARRAY_STAR_TOKEN", "ARRAY_AT_TOKEN",
      "CLOSING_BRACE", "CLOSING_BRACKET", "CLOSING_PAREN",
      "CLOSING_DOUBLE_PAREN", "HEREDOC_ARROW", "HEREDOC_ARROW_DASH",
      "HASH_PATTERN", "DOUBLE_HASH_PATTERN", "ENTER_PATTERN", "PATTERN_START",
      "PATTERN_SUFFIX_START", "NEWLINE", "OPENING_PAREN",
      "DOUBLE_OPENING_PAREN", "OPENING_BRACKET", "TEST_COMMAND_START",
      "TEST_COMMAND_END", "ESAC", "ZSH_EXTENDED_GLOB_FLAGS", "ERROR_RECOVERY" }

-----------------------------------------------------------------------------
(* Character classes (<ctype.h>, <wctype.h>) on the ASCII range *)

AsciiTable ==
    << " ", "!", "\"", "#", "$", "%", "&", "'", "(", ")", "*", "+", ",", "-",
       ".", "/", "0", "1", "2", "3", "4", "5", "6", "7", "8", "9", ":", ";",
       "<", "=", ">", "?", "@", "A", "B", "C", "D", "E", "F", "G", "H", "I",
       "J", "K", "L", "M", "N", "O", "P", "Q", "R", "S", "T", "U", "V", "W",
       "X", "Y", "Z", "[", "\\", "]", "^", "_", BACKTICK, "a", "b", "c", "d", "e",
       "f", "g", "h", "i", "j", "k", "l", "m", "n", "o", "p", "q", "r", "s",
       "t", "u", "v", "w", "x", "y", "z", "{", "|", "}", "~" >>

iswspace(c) ==
    c \in {" ", "\t", "\n", "\r", "\f"}

iswdigit(c) ==
    c \in {"0", "1", "2", "3", "4", "5", "6", "7", "8", "9"}

iswalpha(c) ==
    c \in { "A", "B", "C", "D", "E", "F", "G", "H", "I", "J", "K", "L", "M",
            "N", "O", "P", "Q", "R", "S", "T", "U", "V", "W", "X", "Y", "Z",
            "a", "b", "c", "d", "e", "f", "g", "h", "i", "j", "k", "l", "m",
            "n", "o", "p", "q", "r", "s", "t", "u", "v", "w", "x", "y", "z" }

iswalnum(c) ==
    iswalpha(c) \/ iswdigit(c)

\* the byte array_push(&string, lexer->lookahead) stores for an ASCII character
CharByte(c) ==
    IF c = "\t" THEN 9
    ELSE IF c = "\n" THEN 10
    ELSE IF c = "\f" THEN 12
    ELSE IF c = "\r" THEN 13
    ELSE 31 + (CHOOSE i \in 1..Len(AsciiTable) : AsciiTable[i] = c)

-----------------------------------------------------------------------------
(* Scanner state *)

heredoc_new ==
    [ is_raw |-> FALSE, started |-> FALSE, allows_indent |-> FALSE,
      delimiter |-> <<>>, current_leading_word |-> <<>> ]

\* tree_sitter_zsh_external_scanner_create: calloc + two empty arrays
create ==
    [ last_glob_paren_depth |-> 0,
      ext_was_in_double_quote |-> FALSE,
      ext_saw_outside_quote |-> FALSE,
      context_stack |-> <<>>,
      just_returned_variable_name |-> FALSE,
      just_returned_bare_dollar |-> FALSE,
      heredocs |-> <<>> ]

get_current_context(sc) ==
    IF Len(sc.context_stack) = 0 THEN CTX_NONE
    ELSE sc.context_stack[Len(sc.context_stack)]

in_parameter_expansion(sc) ==
    get_current_context(sc) \in
        {CTX_PARAMETER, CTX_PARAMETER_PATTERN_SUFFIX,
         CTX_PARAMETER_PATTERN_SUBSTITUTE}

should_stop_at_pattern_operators(sc) ==
    get_current_context(sc) \in
        {CTX_PARAMETER, CTX_PARAMETER_PATTERN_SUFFIX,
         CTX_PARAMETER_PATTERN_SUBSTITUTE}

should_stop_at_pattern_slash(sc) ==
    get_current_context(sc) = CTX_PARAMETER_PATTERN_SUBSTITUTE

enter_context(sc, context) ==
    [sc EXCEPT !.context_stack = Append(@, context)]

\* an exit_context that pops only the context it expects
exit_context_strict(sc, expected_context) ==
    IF Len(sc.context_stack) > 0
       /\ sc.context_stack[Len(sc.context_stack)] = expected_context
    THEN [sc EXCEPT !.context_stack = SubSeq(@, 1, Len(@) - 1)]
    ELSE sc

\* pops the top whether or not it is the expected context
exit_context(sc, expected_context) ==
    IF Len(sc.context_stack) > 0
    THEN [sc EXCEPT !.context_stack = SubSeq(@, 1, Len(@) - 1)]
    ELSE sc

reset_string(string) ==
    <<>>

reset_heredoc(heredoc) ==
    [heredoc EXCEPT !.is_raw = FALSE, !.started = FALSE,
                    !.allows_indent = FALSE,
                    !.delimiter = reset_string(@)]

\* the heredoc array keeps its size: every record is blanked in place
reset(sc) ==
    [ last_glob_paren_depth |-> 0,
      ext_was_in_double_quote |-> FALSE,
      ext_saw_outside_quote |-> FALSE,
      context_stack |-> <<>>,
      just_returned_variable_name |-> FALSE,
      just_returned_bare_dollar |-> FALSE,
      heredocs |-> [i \in 1..Len(sc.heredocs) |-> reset_heredoc(sc.heredocs[i])] ]

-----------------------------------------------------------------------------
(* Serialization *)

BoolByte(b) ==
    IF b THEN 1 ELSE 0

\* memcpy of a uint32_t, little endian
U32Bytes(n) ==
    << n % ByteRange, (n \div ByteRange) % ByteRange,
       (n \div (ByteRange * ByteRange)) % ByteRange,
       (n \div (ByteRange * ByteRange * ByteRange)) % ByteRange >>

U32Value(b0, b1, b2, b3) ==
    b0 + ByteRange * b1 + ByteRange * ByteRange * b2
       + ByteRange * ByteRange * ByteRange * b3

SerHeader(sc) ==
    << sc.last_glob_paren_depth % ByteRange,
       BoolByte(sc.ext_was_in_double_quote),
       BoolByte(sc.ext_saw_outside_quote),
       Len(sc.context_stack) % ByteRange,
       Len(sc.heredocs) % ByteRange,
       BoolByte(sc.just_returned_variable_name),
       BoolByte(sc.just_returned_bare_dollar) >>

\* the context loop without the size check of line 326
SerContextCountUnchecked(sc) ==
    Len(sc.context_stack)

\* number of context bytes the loop writes before its size check stops it
SerContextCount(sc) ==
    IF Len(sc.context_stack) <= BufferSize - HeaderSize
    THEN Len(sc.context_stack) ELSE BufferSize - HeaderSize

\* the size check that guards one heredoc record
SerHeredocFits(size, heredoc) ==
    ~ (size + HeredocFixed + Len(heredoc.delimiter) >= BufferSize)

SerHeredoc(heredoc) ==
    << BoolByte(heredoc.is_raw), BoolByte(heredoc.started),
       BoolByte(heredoc.allows_indent) >>
    \o U32Bytes(Len(heredoc.delimiter)) \o heredoc.delimiter

RECURSIVE SerHeredocs(_, _, _)
SerHeredocs(sc, i, buf) ==
    IF i > Len(sc.heredocs) THEN [len |-> Len(buf), buf |-> buf]
    ELSE IF ~ SerHeredocFits(Len(buf), sc.heredocs[i])
         THEN [len |-> 0, buf |-> buf]
         ELSE SerHeredocs(sc, i + 1, buf \o SerHeredoc(sc.heredocs[i]))

\* serialize: len is the value returned, buf the bytes stored in the buffer
serialize(sc) ==
    LET n   == SerContextCount(sc)
        buf == SerHeader(sc) \o [i \in 1..n |-> sc.context_stack[i] % ByteRange]
    IN  IF n < Len(sc.context_stack) THEN [len |-> 0, buf |-> buf]
        ELSE SerHeredocs(sc, 1, buf)

\* buffer[i] (0-based); a read at or past `length` is outside the snapshot and
\* yields the byte g
RdByte(buf, length, i, g) ==
    IF i < length /\ i < Len(buf) THEN buf[i + 1] ELSE g

\* the heredoc loop of deserialize; st carries size, the heredoc array and
\* whether the process died inside memcpy
RECURSIVE DesHeredocs(_, _, _, _, _, _)
DesHeredocs(buf, length, g, count, i, st) ==
    IF i >= count \/ st.crash THEN st
    ELSE
      LET size  == st.size
          slot  == IF i < Len(st.heredocs) THEN st.heredocs[i + 1]
                   ELSE heredoc_new
          dsize == U32Value(RdByte(buf, length, size + 3, g),
                            RdByte(buf, length, size + 4, g),
                            RdByte(buf, length, size + 5, g),
                            RdByte(buf, length, size + 6, g))
          big   == dsize > BufferSize
          h     == [slot EXCEPT
                     !.is_raw = RdByte(buf, length, size, g) # 0,
                     !.started = RdByte(buf, length, size + 1, g) # 0,
                     !.allows_indent = RdByte(buf, length, size + 2, g) # 0,
                     !.delimiter =
                        IF big THEN <<>>
                        ELSE [k \in 1..dsize |->
                                RdByte(buf, length, size + HeredocFixed + k - 1, g)]]
          hs    == IF i < Len(st.heredocs)
                   THEN [st.heredocs EXCEPT ![i + 1] = h]
                   ELSE Append(st.heredocs, h)
      IN  DesHeredocs(buf, length, g, count, i + 1,
                      [ size |-> size + HeredocFixed + dsize,
                        heredocs |-> hs,
                        crash |-> big ])

\* deserialize.  Result: the scanner afterwards, the number of bytes consumed,
\* overread (a byte at or past `length` was read: undefined behaviour, the
\* bytes read are g), crash (a memcpy larger than any buffer the host owns),
\* assert_ok (the final assert(size == length)).
deserialize(sc, buf, length, g) ==
    IF length = 0
    THEN [ scanner |-> reset(sc), size |-> 0, overread |-> FALSE,
           crash |-> FALSE, assert_ok |-> TRUE ]
    ELSE
      LET context_stack_size == RdByte(buf, length, 3, g)
          heredoc_count      == RdByte(buf, length, 4, g)
          nctx == IF HeaderSize >= length THEN 0
                  ELSE IF context_stack_size <= length - HeaderSize
                       THEN context_stack_size ELSE length - HeaderSize
          result(hd) ==
            [ scanner |->
                [ last_glob_paren_depth |-> RdByte(buf, length, 0, g),
                  ext_was_in_double_quote |-> RdByte(buf, length, 1, g) # 0,
                  ext_saw_outside_quote |-> RdByte(buf, length, 2, g) # 0,
                  context_stack |->
                      [i \in 1..nctx |-> RdByte(buf, length, HeaderSize + i - 1, g)],
                  just_returned_variable_name |-> RdByte(buf, length, 5, g) # 0,
                  just_returned_bare_dollar |-> RdByte(buf, length, 6, g) # 0,
                  heredocs |-> hd.heredocs ],
              size |-> hd.size,
              overread |-> hd.size > length \/ length < HeaderSize,
              crash |-> hd.crash,
              assert_ok |-> ~ hd.crash /\ hd.size = length ]
      IN  result(DesHeredocs(buf, length, g, heredoc_count, 0,
                             [ size |-> HeaderSize + nctx,
                               heredocs |-> sc.heredocs,
                               crash |-> FALSE ]))

-----------------------------------------------------------------------------
(* Sets of valid external tokens, as the grammar of src/grammar.js makes    *)
(* them valid at a point of a parse.                                         *)

\* start of a statement: expansion, command_substitution,
\* arithmetic_expansion, test_command, variable_assignment, redirects
VStatement ==
    { "BARE_DOLLAR", "VARIABLE_NAME", "FILE_DESCRIPTOR", "HEREDOC_ARROW",
      "OPENING_PAREN", "DOUBLE_OPENING_PAREN", "OPENING_BRACKET",
      "TEST_COMMAND_START" }

\* after _bare_dollar: expansion, command_substitution,
\* arithmetic_expansion, variable_ref, dollar_variable
VAfterDollar ==
    { "BRACE_START", "OPENING_PAREN", "DOUBLE_OPENING_PAREN",
      "OPENING_BRACKET", "SIMPLE_VARIABLE_NAME", "SPECIAL_VARIABLE_NAME" }

\* after `${`: _expansion_body
VExpansionStart ==
    { "SIMPLE_VARIABLE_NAME", "SPECIAL_VARIABLE_NAME", "BARE_DOLLAR" }

\* after the name of an expansion: subscript, expansion_pattern, `}`
VAfterName ==
    { "CLOSING_BRACE", "OPENING_BRACKET", "HASH_PATTERN",
      "DOUBLE_HASH_PATTERN" }

\* _param_pattern
VPattern ==
    { "BARE_DOLLAR", "REGEX", "EXPANSION_WORD" }

\* _param_pattern_no_slash and _param_replacement
VPatternNoSlash ==
    { "BARE_DOLLAR", "REGEX_NO_SLASH", "EXPANSION_WORD" }

\* after a pattern or a replacement: concatenation or the end of the expansion
VAfterPattern ==
    { "CLOSING_BRACE", "CONCAT" }

\* after a word of a command: concatenation, redirects, the end of a
\* command_substitution
VAfterWord ==
    { "CONCAT", "CLOSING_PAREN", "HEREDOC_ARROW", "FILE_DESCRIPTOR",
      "BARE_DOLLAR" }

\* after an _arithmetic_expression
VArithmeticEnd ==
    { "CLOSING_DOUBLE_PAREN", "CLOSING_PAREN", "CLOSING_BRACKET" }

\* after an _expression of a test_command
VTestEnd ==
    { "TEST_COMMAND_END", "CLOSING_BRACKET", "TEST_OPERATOR", "CONCAT" }

\* heredoc_redirect after its newline: _heredoc_body or _simple_heredoc_body
VHeredocBody ==
    { "HEREDOC_BODY_BEGINNING", "SIMPLE_HEREDOC_BODY" }

\* a value inside an expansion, where a word of the expansion and a literal
\* are both possible (src/grammar.js, _primary_expression)
VExpansionValue ==
    { "TEST_OPERATOR", "EXPANSION_WORD" }

\* the value of a case item: a literal or an extended glob
\* (src/grammar.js, case_item)
VCaseValue ==
    { "BARE_DOLLAR", "TEST_OPERATOR", "EXTGLOB_PATTERN" }

\* after _concat in a concatenation
VAfterConcat ==
    { "BARE_DOLLAR", "PEEK_BARE_DOLLAR" }

-----------------------------------------------------------------------------
(* Documents.  A script lists the calls a parse of the text makes: "ext" is  *)
(* a scan call with the valid tokens of that point and the token the        *)
(* grammar expects there, "int" are n characters taken by the lexer of the  *)
(* grammar itself (words, numbers, blanks, immediate tokens).               *)

\* depth of the nest of `$(` in DeepDoc
DeepNest ==
    1018

Corpus ==
    <<
      \* ${a}
      [ nest |-> 0, name |-> "brace",
        text |-> << "$", "{", "a", "}" >>,
        script |->
            << [k |-> "ext", valid |-> VStatement, expect |-> "BARE_DOLLAR", n |-> 0],
                [k |-> "ext", valid |-> VAfterDollar, expect |-> "BRACE_START", n |-> 0],
                [k |-> "ext", valid |-> VExpansionStart, expect |-> "SIMPLE_VARIABLE_NAME", n |-> 0],
                [k |-> "ext", valid |-> VAfterName, expect |-> "CLOSING_BRACE", n |-> 0] >> ],
      \* ${var##*.bak}
      [ nest |-> 0, name |-> "suffix_pattern",
        text |-> << "$", "{", "v", "a", "r", "#", "#", "*", ".", "b", "a", "k",
                 "}" >>,
        script |->
            << [k |-> "ext", valid |-> VStatement, expect |-> "BARE_DOLLAR", n |-> 0],
                [k |-> "ext", valid |-> VAfterDollar, expect |-> "BRACE_START", n |-> 0],
                [k |-> "ext", valid |-> VExpansionStart, expect |-> "SIMPLE_VARIABLE_NAME", n |-> 0],
                [k |-> "ext", valid |-> VAfterName, expect |-> "DOUBLE_HASH_PATTERN", n |-> 0],
                [k |-> "ext", valid |-> {"PATTERN_SUFFIX_START"}, expect |-> "PATTERN_SUFFIX_START", n |-> 0],
                [k |-> "ext", valid |-> VPattern, expect |-> "REGEX", n |-> 0],
                [k |-> "ext", valid |-> VAfterPattern, expect |-> "CLOSING_BRACE", n |-> 0] >> ],
      \* ${p/a/b}
      [ nest |-> 0, name |-> "substitute",
        text |-> << "$", "{", "p", "/", "a", "/", "b", "}" >>,
        script |->
            << [k |-> "ext", valid |-> VStatement, expect |-> "BARE_DOLLAR", n |-> 0],
                [k |-> "ext", valid |-> VAfterDollar, expect |-> "BRACE_START", n |-> 0],
                [k |-> "ext", valid |-> VExpansionStart, expect |-> "SIMPLE_VARIABLE_NAME", n |-> 0],
                [k |-> "int", valid |-> {}, expect |-> "", n |-> 1],
                [k |-> "ext", valid |-> {"PATTERN_START"}, expect |-> "PATTERN_START", n |-> 0],
                [k |-> "ext", valid |-> VPatternNoSlash, expect |-> "REGEX_NO_SLASH", n |-> 0],
                [k |-> "int", valid |-> {}, expect |-> "", n |-> 1],
                [k |-> "ext", valid |-> VPatternNoSlash, expect |-> "REGEX_NO_SLASH", n |-> 0],
                [k |-> "ext", valid |-> VAfterPattern, expect |-> "CLOSING_BRACE", n |-> 0] >> ],
      \* $(a)
      [ nest |-> 0, name |-> "command",
        text |-> << "$", "(", "a", ")" >>,
        script |->
            << [k |-> "ext", valid |-> VStatement, expect |-> "BARE_DOLLAR", n |-> 0],
                [k |-> "ext", valid |-> VAfterDollar, expect |-> "OPENING_PAREN", n |-> 0],
                [k |-> "int", valid |-> {}, expect |-> "", n |-> 1],
                [k |-> "ext", valid |-> VAfterWord, expect |-> "CLOSING_PAREN", n |-> 0] >> ],
      \* $((1))
      [ nest |-> 0, name |-> "arithmetic",
        text |-> << "$", "(", "(", "1", ")", ")" >>,
        script |->
            << [k |-> "ext", valid |-> VStatement, expect |-> "BARE_DOLLAR", n |-> 0],
                [k |-> "ext", valid |-> VAfterDollar, expect |-> "DOUBLE_OPENING_PAREN", n |-> 0],
                [k |-> "int", valid |-> {}, expect |-> "", n |-> 1],
                [k |-> "ext", valid |-> VArithmeticEnd, expect |-> "CLOSING_DOUBLE_PAREN", n |-> 0] >> ],
      \* [[ a ]]
      [ nest |-> 0, name |-> "test",
        text |-> << "[", "[", " ", "a", " ", "]", "]" >>,
        script |->
            << [k |-> "ext", valid |-> VStatement, expect |-> "TEST_COMMAND_START", n |-> 0],
                [k |-> "int", valid |-> {}, expect |-> "", n |-> 2],
                [k |-> "ext", valid |-> VTestEnd, expect |-> "TEST_COMMAND_END", n |-> 0] >> ],
      \* $[1]
      [ nest |-> 0, name |-> "bracket",
        text |-> << "$", "[", "1", "]" >>,
        script |->
            << [k |-> "ext", valid |-> VStatement, expect |-> "BARE_DOLLAR", n |-> 0],
                [k |-> "ext", valid |-> VAfterDollar, expect |-> "OPENING_BRACKET", n |-> 0],
                [k |-> "int", valid |-> {}, expect |-> "", n |-> 1],
                [k |-> "ext", valid |-> VArithmeticEnd, expect |-> "CLOSING_BRACKET", n |-> 0] >> ],
      \* $($(a))
      [ nest |-> 0, name |-> "nested_command",
        text |-> << "$", "(", "$", "(", "a", ")", ")" >>,
        script |->
            << [k |-> "ext", valid |-> VStatement, expect |-> "BARE_DOLLAR", n |-> 0],
                [k |-> "ext", valid |-> VAfterDollar, expect |-> "OPENING_PAREN", n |-> 0],
                [k |-> "ext", valid |-> VStatement, expect |-> "BARE_DOLLAR", n |-> 0],
                [k |-> "ext", valid |-> VAfterDollar, expect |-> "OPENING_PAREN", n |-> 0],
                [k |-> "int", valid |-> {}, expect |-> "", n |-> 1],
                [k |-> "ext", valid |-> VAfterWord, expect |-> "CLOSING_PAREN", n |-> 0],
                [k |-> "ext", valid |-> VAfterWord, expect |-> "CLOSING_PAREN", n |-> 0] >> ],
      \* one heredoc
      [ nest |-> 0, name |-> "heredoc",
        text |-> << "c", " ", "<", "<", "A", "\n", "x", "\n", "A", "\n" >>,
        script |->
            << [k |-> "int", valid |-> {}, expect |-> "", n |-> 1],
                [k |-> "ext", valid |-> VAfterWord, expect |-> "HEREDOC_ARROW", n |-> 0],
                [k |-> "ext", valid |-> {"HEREDOC_START"}, expect |-> "HEREDOC_START", n |-> 0],
                [k |-> "int", valid |-> {}, expect |-> "", n |-> 1],
                [k |-> "ext", valid |-> VHeredocBody, expect |-> "SIMPLE_HEREDOC_BODY", n |-> 0],
                [k |-> "ext", valid |-> {"HEREDOC_END"}, expect |-> "HEREDOC_END", n |-> 0],
                [k |-> "int", valid |-> {}, expect |-> "", n |-> 1] >> ],
      \* two heredocs pending on one command line
      [ nest |-> 0, name |-> "two_heredocs",
        text |-> << "c", " ", "<", "<", "A", " ", "<", "<", "B", "\n", "x", "\n",
                 "A", "\n", "y", "\n", "B", "\n" >>,
        script |->
            << [k |-> "int", valid |-> {}, expect |-> "", n |-> 1],
                [k |-> "ext", valid |-> VAfterWord, expect |-> "HEREDOC_ARROW", n |-> 0],
                [k |-> "ext", valid |-> {"HEREDOC_START"}, expect |-> "HEREDOC_START", n |-> 0],
                [k |-> "ext", valid |-> VAfterWord, expect |-> "HEREDOC_ARROW", n |-> 0],
                [k |-> "ext", valid |-> {"HEREDOC_START"}, expect |-> "HEREDOC_START", n |-> 0],
                [k |-> "int", valid |-> {}, expect |-> "", n |-> 1],
                [k |-> "ext", valid |-> VHeredocBody, expect |-> "SIMPLE_HEREDOC_BODY", n |-> 0],
                [k |-> "ext", valid |-> {"HEREDOC_END"}, expect |-> "HEREDOC_END", n |-> 0],
                [k |-> "int", valid |-> {}, expect |-> "", n |-> 1],
                [k |-> "ext", valid |-> VHeredocBody, expect |-> "SIMPLE_HEREDOC_BODY", n |-> 0],
                [k |-> "ext", valid |-> {"HEREDOC_END"}, expect |-> "HEREDOC_END", n |-> 0],
                [k |-> "int", valid |-> {}, expect |-> "", n |-> 1] >> ],
      \* a word, `$` and a name
      [ nest |-> 0, name |-> "concat",
        text |-> << "a", "$", "b", " " >>,
        script |-> << >> ],
      \* a descriptor and a separator
      [ nest |-> 0, name |-> "descriptor",
        text |-> << "0", "0", ">", " ", ";" >>,
        script |-> << >> ],
      \* an assignment, a newline and `$`
      [ nest |-> 0, name |-> "assignment",
        text |-> << "x", "=", "\n", "$" >>,
        script |-> << >> ],
      \* a test operator and a quoted pattern
      [ nest |-> 0, name |-> "quoted",
        text |-> << "-", "f", " ", "'", "a", "'", " ", ")" >>,
        script |-> << >> ],
      \* a name followed by `?`
      [ nest |-> 0, name |-> "question",
        text |-> << "a", "?", " " >>,
        script |-> << >> ],
      \* $( (a) ): a subshell inside a command substitution
      [ nest |-> 0, name |-> "subshell",
        text |-> << "$", "(", " ", "(", "a", ")", " ", ")" >>,
        script |->
            << [k |-> "ext", valid |-> VStatement, expect |-> "BARE_DOLLAR", n |-> 0],
                [k |-> "ext", valid |-> VAfterDollar, expect |-> "OPENING_PAREN", n |-> 0],
                [k |-> "ext", valid |-> VStatement, expect |-> "OPENING_PAREN", n |-> 0],
                [k |-> "int", valid |-> {}, expect |-> "", n |-> 1],
                [k |-> "ext", valid |-> VAfterWord, expect |-> "CLOSING_PAREN", n |-> 0],
                [k |-> "ext", valid |-> VAfterWord, expect |-> "CLOSING_PAREN", n |-> 0] >> ],
      \* ((1)): an arithmetic expansion without `$`; the scanner is asked for
      \* `((`, and what it declines the lexer of the grammar takes
      [ nest |-> 0, name |-> "bare_arithmetic",
        text |-> << "(", "(", "1", ")", ")" >>,
        script |->
            << [k |-> "lit", valid |-> {"DOUBLE_OPENING_PAREN"}, expect |-> "DOUBLE_OPENING_PAREN", n |-> 2],
                [k |-> "int", valid |-> {}, expect |-> "", n |-> 1],
                [k |-> "ext", valid |-> VArithmeticEnd, expect |-> "CLOSING_DOUBLE_PAREN", n |-> 0] >> ],
      \* ${a b}: whitespace inside a parameter expansion
      [ nest |-> 0, name |-> "spaced",
        text |-> << "$", "{", "a", " ", "b", "}" >>,
        script |-> << >> ],
      \* a suffix removal, then a case statement whose item is a lone dash
      [ nest |-> 0, name |-> "case_after_pattern",
        text |-> << "$", "{", "v", "#", "a", "}", "\n",
                    "c", "a", "s", "e", " ", "y", " ", "i", "n", " ",
                    "-", " ", ")", " ", ";", ";", " ", "e", "s", "a", "c" >>,
        script |->
            << [k |-> "ext", valid |-> VStatement, expect |-> "BARE_DOLLAR", n |-> 0],
                [k |-> "ext", valid |-> VAfterDollar, expect |-> "BRACE_START", n |-> 0],
                [k |-> "ext", valid |-> VExpansionStart, expect |-> "SIMPLE_VARIABLE_NAME", n |-> 0],
                [k |-> "ext", valid |-> VAfterName, expect |-> "HASH_PATTERN", n |-> 0],
                [k |-> "ext", valid |-> {"PATTERN_SUFFIX_START"}, expect |-> "PATTERN_SUFFIX_START", n |-> 0],
                [k |-> "ext", valid |-> VPattern, expect |-> "REGEX", n |-> 0],
                [k |-> "ext", valid |-> VAfterPattern, expect |-> "CLOSING_BRACE", n |-> 0],
                [k |-> "int", valid |-> {}, expect |-> "", n |-> 1],
                [k |-> "int", valid |-> {}, expect |-> "", n |-> 4],
                [k |-> "int", valid |-> {}, expect |-> "", n |-> 2],
                [k |-> "int", valid |-> {}, expect |-> "", n |-> 3],
                [k |-> "ext", valid |-> VCaseValue, expect |-> "EXTGLOB_PATTERN", n |-> 0] >> ],
      \* ${-f }: a dash, a letter and a blank in front of the closing brace
      [ nest |-> 0, name |-> "demote",
        text |-> << "$", "{", "-", "f", " ", "}" >>,
        script |-> << >> ],
      \* ${- }: a lone dash and a blank inside a parameter expansion
      [ nest |-> 0, name |-> "lone_dash",
        text |-> << "$", "{", "-", " ", "}" >>,
        script |-> << >> ],
      \* {1..2}: a brace range
      [ nest |-> 0, name |-> "range",
        text |-> << "{", "1", ".", ".", "2", "}" >>,
        script |-> << >> ],
      \* c <<-A with the delimiter line indented by a tab
      [ nest |-> 0, name |-> "dash_heredoc",
        text |-> << "c", " ", "<", "<", "-", "A", "\n", "\t", "A", "\n" >>,
        script |-> << >> ],
      \* a here-string
      [ nest |-> 0, name |-> "herestring",
        text |-> << "c", " ", "<", "<", "<", "a" >>,
        script |-> << >> ],
      \* a shift assignment
      [ nest |-> 0, name |-> "shift_assign",
        text |-> << "c", " ", "<", "<", "=", "1" >>,
        script |-> << >> ],
      \* a body line that begins with the delimiter text
      [ nest |-> 0, name |-> "prefix_line",
        text |-> << "c", " ", "<", "<", "A", "\n", "A", "B", "\n", "A", "\n" >>,
        script |->
            << [k |-> "int", valid |-> {}, expect |-> "", n |-> 1],
                [k |-> "ext", valid |-> VAfterWord, expect |-> "HEREDOC_ARROW", n |-> 0],
                [k |-> "ext", valid |-> {"HEREDOC_START"}, expect |-> "HEREDOC_START", n |-> 0],
                [k |-> "int", valid |-> {}, expect |-> "", n |-> 1],
                [k |-> "ext", valid |-> VHeredocBody, expect |-> "SIMPLE_HEREDOC_BODY", n |-> 0],
                [k |-> "ext", valid |-> {"HEREDOC_END"}, expect |-> "HEREDOC_END", n |-> 0] >> ],
      \* an indented delimiter line under plain <<
      [ nest |-> 0, name |-> "indented",
        text |-> << "c", " ", "<", "<", "A", "\n", " ", "A", "\n", "A", "\n" >>,
        script |->
            << [k |-> "int", valid |-> {}, expect |-> "", n |-> 1],
                [k |-> "ext", valid |-> VAfterWord, expect |-> "HEREDOC_ARROW", n |-> 0],
                [k |-> "ext", valid |-> {"HEREDOC_START"}, expect |-> "HEREDOC_START", n |-> 0],
                [k |-> "int", valid |-> {}, expect |-> "", n |-> 1],
                [k |-> "ext", valid |-> VHeredocBody, expect |-> "SIMPLE_HEREDOC_BODY", n |-> 0],
                [k |-> "ext", valid |-> {"HEREDOC_END"}, expect |-> "HEREDOC_END", n |-> 0] >> ],
      \* a body with a lone `$` and an indented delimiter line
      [ nest |-> 0, name |-> "dollar_body",
        text |-> << "c", " ", "<", "<", "A", "\n", "x", "$", " ", "\n",
                    " ", "A", "\n" >>,
        script |->
            << [k |-> "int", valid |-> {}, expect |-> "", n |-> 1],
                [k |-> "ext", valid |-> VAfterWord, expect |-> "HEREDOC_ARROW", n |-> 0],
                [k |-> "ext", valid |-> {"HEREDOC_START"}, expect |-> "HEREDOC_START", n |-> 0],
                [k |-> "int", valid |-> {}, expect |-> "", n |-> 1],
                [k |-> "ext", valid |-> VHeredocBody, expect |-> "SIMPLE_HEREDOC_BODY", n |-> 0],
                [k |-> "ext", valid |-> {"HEREDOC_END"}, expect |-> "HEREDOC_END", n |-> 0] >> ],
      \* a heredoc whose body holds an expansion
      [ nest |-> 0, name |-> "heredoc_expansion",
        text |-> << "c", " ", "<", "<", "A", "\n", "$", "x", "\n", "A", "\n" >>,
        script |-> << >> ],
      \* a heredoc whose delimiter line never comes
      [ nest |-> 0, name |-> "unterminated",
        text |-> << "c", " ", "<", "<", "A", "\n", "x" >>,
        script |->
            << [k |-> "int", valid |-> {}, expect |-> "", n |-> 1],
                [k |-> "ext", valid |-> VAfterWord, expect |-> "HEREDOC_ARROW", n |-> 0],
                [k |-> "ext", valid |-> {"HEREDOC_START"}, expect |-> "HEREDOC_START", n |-> 0],
                [k |-> "int", valid |-> {}, expect |-> "", n |-> 1],
                [k |-> "ext", valid |-> VHeredocBody, expect |-> "SIMPLE_HEREDOC_BODY", n |-> 0] >> ]
    >>

\* `c <<A ` and then `$(` DeepNest times: a pending heredoc and a deep nest.
\* nest is the number of times `$(` follows the text of a document, each
\* scanned as BARE_DOLLAR and then OPENING_PAREN
DeepDoc ==
    [ nest |-> DeepNest, name |-> "deep",
      text |-> << "c", " ", "<", "<", "A", " " >>,
      script |->
          << [k |-> "int", valid |-> {}, expect |-> "", n |-> 1],
              [k |-> "ext", valid |-> VAfterWord, expect |-> "HEREDOC_ARROW", n |-> 0],
              [k |-> "ext", valid |-> {"HEREDOC_START"}, expect |-> "HEREDOC_START", n |-> 0],
              [k |-> "int", valid |-> {}, expect |-> "", n |-> 1] >> ]

Documents ==
    { Corpus[d] : d \in 1..Len(Corpus) } \cup { DeepDoc }

\* the characters of the document, 1-based
TextLen ==
    Len(input.text) + 2 * input.nest

TextAt(i) ==
    IF i <= Len(input.text) THEN input.text[i]
    ELSE IF (i - Len(input.text)) % 2 = 1 THEN "$" ELSE "("

\* the calls of the parse of the document
ScriptLen ==
    Len(input.script) + 2 * input.nest

ScriptAt(i) ==
    IF i <= Len(input.script) THEN input.script[i]
    ELSE IF (i - Len(input.script)) % 2 = 1
    THEN [k |-> "ext", valid |-> VStatement, expect |-> "BARE_DOLLAR", n |-> 0]
    ELSE [k |-> "ext", valid |-> VAfterDollar, expect |-> "OPENING_PAREN", n |-> 0]

-----------------------------------------------------------------------------
(* The lexer handed to scan (TSLexer).  A lexer state L carries the position *)
(* p, the position e of the last mark_end (-1: none), result_symbol sym, the *)
(* scanner sc and the two locals was_just_variable_name (wvn) and            *)
(* was_just_bare_dollar (wbd).                                               *)

lookahead(L) ==
    IF L.p < TextLen THEN TextAt(L.p + 1) ELSE NUL

eof(L) ==
    L.p >= TextLen

\* lexer->advance(lexer, false); at end of input the lexer stays in place
advance(L) ==
    IF eof(L) THEN L ELSE [L EXCEPT !.p = @ + 1]

\* lexer->advance(lexer, true)
skip(L) ==
    advance(L)

mark_end(L) ==
    [L EXCEPT !.e = L.p]

set_symbol(L, symbol) ==
    [L EXCEPT !.sym = symbol]

\* lexer->get_column(lexer) == 0
at_column_0(L) ==
    L.p = 0 \/ TextAt(L.p) = "\n"

\* a turn of a loop that leaves the lexer and the state of the loop as they
\* were is repeated for ever: the call never returns
never_returns(L) ==
    [L EXCEPT !.hung = TRUE]

\* while (iswspace(lexer->lookahead)) skip(lexer);
RECURSIVE skip_wspace(_)
skip_wspace(L) ==
    LET go_on(M) == IF M = L THEN never_returns(L) ELSE skip_wspace(M)
    IN  IF iswspace(lookahead(L)) THEN go_on(skip(L)) ELSE L

\* outcomes of one handler of scan: it returned (done), or control goes on
\* to the next handler or to a label
Return(L, value) ==
    [done |-> TRUE, ret |-> value, go |-> "none", L |-> L]

Continue(L) ==
    [done |-> FALSE, ret |-> FALSE, go |-> "next", L |-> L]

Goto(L, label) ==
    [done |-> FALSE, ret |-> FALSE, go |-> label, L |-> L]

\* a scanner that never sees the recovery signal
in_error_recovery_never(valid_symbols) ==
    FALSE

in_error_recovery(valid_symbols) ==
    "ERROR_RECOVERY" \in valid_symbols

BackHeredoc(sc) ==
    sc.heredocs[Len(sc.heredocs)]

SetBackHeredoc(L, heredoc) ==
    [L EXCEPT !.sc.heredocs = [@ EXCEPT ![Len(@)] = heredoc]]

PopHeredoc(L) ==
    [L EXCEPT !.sc.heredocs = SubSeq(@, 1, Len(@) - 1)]

-----------------------------------------------------------------------------
(* Heredoc subsystem *)

\* the loop of advance_word; r.ok = FALSE is the early `return false`
RECURSIVE advance_word_loop(_, _, _, _)
advance_word_loop(L, word, quote, empty) ==
    LET c == lookahead(L)
        stop == IF quote # NUL THEN c = quote \/ c = "\r" \/ c = "\n"
                ELSE iswspace(c)
    IN  IF c = NUL \/ stop
        THEN [early |-> FALSE, empty |-> empty, L |-> L, word |-> word]
        ELSE IF c = "\\"
             THEN LET L1 == advance(L)
                  IN  IF lookahead(L1) = NUL
                      THEN [early |-> TRUE, empty |-> empty, L |-> L1,
                            word |-> word]
                      ELSE advance_word_loop(
                              advance(L1),
                              Append(word, CharByte(lookahead(L1))),
                              quote, FALSE)
             ELSE advance_word_loop(advance(L), Append(word, CharByte(c)),
                                    quote, FALSE)

advance_word(L, unquoted_word) ==
    LET quoted == lookahead(L) \in {"'", "\""}
        quote  == IF quoted THEN lookahead(L) ELSE NUL
        result(r) ==
            IF r.early THEN [found |-> FALSE, L |-> r.L, word |-> r.word]
            ELSE [ found |-> ~ r.empty,
                   L |-> IF quoted /\ lookahead(r.L) = quote
                         THEN advance(r.L) ELSE r.L,
                   word |-> Append(r.word, 0) ]
    IN  result(advance_word_loop(IF quoted THEN advance(L) ELSE L,
                                 unquoted_word, quote, TRUE))

scan_heredoc_start(L0) ==
    LET L1  == set_symbol(skip_wspace(L0), "HEREDOC_START")
        h   == BackHeredoc(L1.sc)
        raw == lookahead(L1) \in {"'", "\"", "\\"}
        result(w) ==
            Return(SetBackHeredoc(
                     [w.L EXCEPT !.sc = L1.sc],
                     [h EXCEPT !.is_raw = raw,
                               !.delimiter = IF w.found THEN w.word
                                             ELSE reset_string(w.word)]),
                   w.found)
    IN  result(advance_word(L1, h.delimiter))

\* a C string: the bytes before the first NUL
CString(bytes) ==
    IF \E i \in 1..Len(bytes) : bytes[i] = 0
    THEN SubSeq(bytes, 1,
                (CHOOSE i \in 1..Len(bytes) :
                    bytes[i] = 0 /\ \A j \in 1..(i - 1) : bytes[j] # 0) - 1)
    ELSE bytes

\* number of characters the matching loop of scan_heredoc_end_identifier
\* consumes.  A delimiter is empty or ends in NUL, so the loop stops before
\* index delimiter.size.
RECURSIVE end_identifier_len(_, _, _)
end_identifier_len(delimiter, L, size) ==
    IF size < Len(delimiter) /\ lookahead(L) # NUL /\ lookahead(L) # "\n"
       /\ delimiter[size + 1] = CharByte(lookahead(L))
    THEN end_identifier_len(delimiter, advance(L), size + 1)
    ELSE size

scan_heredoc_end_identifier(L) ==
    LET h == BackHeredoc(L.sc)
        result(n) ==
            [ match |-> IF Len(h.delimiter) = 0 THEN FALSE
                        ELSE CString(SubSeq(h.delimiter, 1, n) \o <<0>>)
                                = CString(h.delimiter),
              L |-> SetBackHeredoc(
                      [L EXCEPT !.p = @ + n],
                      [h EXCEPT !.current_leading_word =
                                    SubSeq(h.delimiter, 1, n) \o <<0>>]) ]
    IN  result(IF Len(h.delimiter) > 0
               THEN end_identifier_len(h.delimiter, L, 0) ELSE 0)

RECURSIVE scan_heredoc_content_loop(_, _, _, _)
scan_heredoc_content_loop(L, did_advance, middle_type, end_type) ==
    LET c == lookahead(L)
        h == BackHeredoc(L.sc)
        \* lines 565-589: after a newline
        after_newline(r) ==
            IF r.match
            THEN Return(IF r.L.sym = "HEREDOC_END" THEN PopHeredoc(r.L)
                        ELSE r.L, TRUE)
            ELSE Continue(r.L)
        \* lines 591-614: at the start of a line
        at_line_start(r) ==
            IF r.match THEN Return(r.L, TRUE) ELSE Continue(advance(r.L))
        \* what the iteration gives: a return, or the lexer to go on with
        iteration ==
            IF c = NUL THEN
                IF eof(L) /\ did_advance
                THEN Return(set_symbol(SetBackHeredoc(L, reset_heredoc(h)),
                                       end_type), TRUE)
                ELSE Return(L, FALSE)
            ELSE IF c = "\\" THEN Continue(advance(advance(L)))
            ELSE IF c = "$" THEN
                IF h.is_raw THEN Continue(advance(L))
                ELSE IF did_advance THEN
                    LET L1 == advance(SetBackHeredoc(
                                set_symbol(mark_end(L), middle_type),
                                [h EXCEPT !.started = TRUE]))
                    IN  IF iswalpha(lookahead(L1)) \/ lookahead(L1) \in {"{", "("}
                        THEN Return(L1, TRUE)
                        ELSE Continue(L1)
                ELSE IF middle_type = "HEREDOC_BODY_BEGINNING" /\ at_column_0(L)
                THEN Return(SetBackHeredoc(set_symbol(L, middle_type),
                                           [h EXCEPT !.started = TRUE]), TRUE)
                ELSE Return(L, FALSE)
            ELSE IF c = "\n" THEN
                LET L1 == advance(L)
                    L2 == IF h.allows_indent THEN skip_wspace(L1) ELSE L1
                IN  after_newline(scan_heredoc_end_identifier(
                        mark_end(set_symbol(L2, IF h.started THEN middle_type
                                                ELSE end_type))))
            ELSE IF at_column_0(L) THEN
                LET L1 == skip_wspace(L)
                IN  at_line_start(scan_heredoc_end_identifier(
                        IF end_type # "SIMPLE_HEREDOC_BODY"
                        THEN set_symbol(L1, middle_type)
                        ELSE mark_end(set_symbol(L1, end_type))))
            ELSE Continue(advance(L))
        go_on(r) ==
            IF r.done THEN r
            ELSE IF r.L = L /\ did_advance
            THEN Return(never_returns(L), FALSE)
            ELSE scan_heredoc_content_loop(r.L, TRUE, middle_type, end_type)
    IN  go_on(iteration)

scan_heredoc_content(L, middle_type, end_type) ==
    scan_heredoc_content_loop(L, FALSE, middle_type, end_type)

-----------------------------------------------------------------------------
(* scan: the handlers, in dispatch order *)

ParameterContexts ==
    {CTX_PARAMETER, CTX_PARAMETER_PATTERN_SUFFIX,
     CTX_PARAMETER_PATTERN_SUBSTITUTE}

\* was_just_bare_dollar = scanner->just_returned_bare_dollar = false
clear_bare_dollar(L) ==
    [L EXCEPT !.wbd = FALSE, !.sc.just_returned_bare_dollar = FALSE]

\* lines 637-642: capture both history flags and clear them
\* capture_history without the clearing of lines 641-642
capture_history_keeping(sc, p) ==
    [ p |-> p, e |-> -1, sym |-> "HEREDOC_START", sc |-> sc,
      wvn |-> sc.just_returned_variable_name,
      wbd |-> sc.just_returned_bare_dollar, hung |-> FALSE ]

capture_history(sc, p) ==
    [ p |-> p, e |-> -1, sym |-> "HEREDOC_START",
      sc |-> [sc EXCEPT !.just_returned_variable_name = FALSE,
                        !.just_returned_bare_dollar = FALSE],
      wvn |-> sc.just_returned_variable_name,
      wbd |-> sc.just_returned_bare_dollar, hung |-> FALSE ]

RECURSIVE skip_newlines(_)
skip_newlines(L) ==
    LET go_on(M) == IF M = L THEN never_returns(L) ELSE skip_newlines(M)
    IN  IF lookahead(L) = "\n" THEN go_on(skip(L)) ELSE L

\* lines 650-663: the handler sets the symbol and goes on, it does not return
scan_newline(L, v) ==
    IF "NEWLINE" \in v /\ ~ in_error_recovery(v) /\ lookahead(L) = "\n"
    THEN Continue(set_symbol(mark_end(skip_newlines(L)), "NEWLINE"))
    ELSE Continue(L)

\* the closing-brace handler without the test of the top context
scan_closing_brace_any(L, v) ==
    IF lookahead(L) = "}" /\ "CLOSING_BRACE" \in v /\ ~ in_error_recovery(v)
    THEN Return(advance(set_symbol([L EXCEPT !.sc = exit_context(@, get_current_context(@))], "CLOSING_BRACE")), TRUE)
    ELSE Continue(L)

\* lines 667-691
scan_closing_brace(L, v) ==
    IF lookahead(L) = "}" /\ "CLOSING_BRACE" \in v /\ ~ in_error_recovery(v)
       /\ get_current_context(L.sc) \in ParameterContexts
    THEN Return(advance(set_symbol(
                  [L EXCEPT !.sc = exit_context(@, get_current_context(@))],
                  "CLOSING_BRACE")), TRUE)
    ELSE Continue(L)

RECURSIVE skip_to_backtick(_)
skip_to_backtick(L) ==
    LET go_on(M) == IF M = L THEN never_returns(L) ELSE skip_to_backtick(M)
    IN  IF lookahead(L) # BACKTICK /\ ~ eof(L) THEN go_on(advance(L))
        ELSE L

\* the separator test of the CONCAT handler (lines 695-706)
concat_separator(L, v) ==
    LET c   == lookahead(L)
        ctx == get_current_context(L.sc)
    IN  \/ c = NUL
        \/ iswspace(c)
        \/ c = ">"
        \/ c = "<"
        \/ (c = ")" /\ "CLOSING_PAREN" \in v)
        \/ c = "("
        \/ c = ";"
        \/ c = "&"
        \/ c = "|"
        \/ (c = "}" /\ ctx \in ParameterContexts \cup {CTX_BRACE_EXPANSION})
        \/ (c = "]" /\ "CLOSING_BRACKET" \in v)
        \/ (c = "[" /\ L.wvn)

\* lines 746-753
scan_concat_space(L, v) ==
    IF iswspace(lookahead(L))
       /\ get_current_context(L.sc) \in
             ParameterContexts \cup {CTX_BRACE_EXPANSION}
       /\ "EXPANSION_WORD" \notin v
    THEN Return(set_symbol(L, "CONCAT"), TRUE)
    ELSE Continue(L)

\* lines 693-754
scan_concat(L, v) ==
    IF "CONCAT" \in v /\ ~ in_error_recovery(v)
    THEN IF ~ concat_separator(L, v)
         THEN LET L1 == set_symbol(L, "CONCAT")
              IN  IF lookahead(L) = BACKTICK
                  THEN LET L2 == skip_to_backtick(advance(mark_end(L1)))
                           L3 == IF lookahead(L2) = BACKTICK THEN advance(L2)
                                 ELSE L2
                       IN  IF eof(L2) THEN Return(L2, FALSE)
                           ELSE Return(L3, iswspace(lookahead(L3)) \/ eof(L3))
                  ELSE IF lookahead(L) = "\\"
                  THEN LET L2 == advance(mark_end(L1))
                       IN  IF lookahead(L2) \in {"\"", "'", "\\"}
                           THEN Return(L2, TRUE)
                           ELSE IF eof(L2) THEN Return(L2, FALSE)
                           ELSE scan_concat_space(L2, v)
                  ELSE Return(L1, TRUE)
         ELSE scan_concat_space(L, v)
    ELSE Continue(L)

RECURSIVE skip_blanks(_)
skip_blanks(L) ==
    LET go_on(M) == IF M = L THEN never_returns(L) ELSE skip_blanks(M)
    IN  IF lookahead(L) \in {" ", "\t"} /\ ~ eof(L) THEN go_on(skip(L))
        ELSE L

\* lines 757-793
\* the BARE_DOLLAR handler without its advance over `$`
scan_bare_dollar_in_place(L, v) ==
    IF "BARE_DOLLAR" \in v /\ ~ in_error_recovery(v) /\ lookahead(L) = "$"
    THEN Return([set_symbol(mark_end(L), "BARE_DOLLAR")
                   EXCEPT !.wbd = TRUE,
                          !.sc.just_returned_bare_dollar = TRUE], TRUE)
    ELSE Continue(L)

scan_bare_dollar(L, v) ==
    IF "BARE_DOLLAR" \in v /\ ~ in_error_recovery(v)
    THEN LET L1 == skip_blanks(L)
             L2 == advance(L1)
         IN  IF lookahead(L1) = "$"
             THEN IF lookahead(L2) # "\""
                  THEN Return([set_symbol(mark_end(L2), "BARE_DOLLAR")
                                 EXCEPT !.wbd = TRUE,
                                        !.sc.just_returned_bare_dollar = TRUE],
                              TRUE)
                  ELSE Return(L2, FALSE)
             ELSE Continue(L1)
    ELSE Continue(L)

\* lines 798-817
\* a PEEK_BARE_DOLLAR handler that takes the `$` it looks at
scan_peek_consuming(L, v) ==
    IF "PEEK_BARE_DOLLAR" \in v /\ ~ in_error_recovery(v)
       /\ lookahead(L) = "$"
    THEN Return(set_symbol(mark_end(advance(L)), "PEEK_BARE_DOLLAR"), TRUE)
    ELSE Continue(L)

scan_peek_bare_dollar(L, v) ==
    IF "PEEK_BARE_DOLLAR" \in v /\ ~ in_error_recovery(v)
       /\ lookahead(L) = "$"
    THEN Return(set_symbol(L, "PEEK_BARE_DOLLAR"), TRUE)
    ELSE Continue(L)

\* the BRACE_START handler without the test of the bare-dollar flag
scan_brace_start_always(L, v) ==
    IF "BRACE_START" \in v /\ ~ in_error_recovery(v) /\ lookahead(L) = "{"
    THEN LET L1 == mark_end(set_symbol(clear_bare_dollar(advance(L)),
                                       "BRACE_START"))
         IN  Return([L1 EXCEPT !.sc = enter_context(@, CTX_PARAMETER)], TRUE)
    ELSE Continue(L)

\* lines 821-836: `{` directly after BARE_DOLLAR
scan_brace_start(L, v) ==
    IF "BRACE_START" \in v /\ ~ in_error_recovery(v) /\ lookahead(L) = "{"
       /\ L.wbd
    THEN LET L1 == mark_end(set_symbol(clear_bare_dollar(advance(L)),
                                       "BRACE_START"))
         IN  Return([L1 EXCEPT !.sc = enter_context(@, CTX_PARAMETER)], TRUE)
    ELSE Continue(L)

\* the flag characters accepted after `(#` (lines 881-893)
glob_flag_char(c) ==
    c # NUL /\ (iswalnum(c) \/ c \in {".", "i", "q", "b", "m", "n", "s", "B",
                                      "I", "N", "U", "X", "c", "e", "l", "f",
                                      "a", "C", "o"})

RECURSIVE skip_glob_flags(_)
skip_glob_flags(L) ==
    IF glob_flag_char(lookahead(L)) THEN skip_glob_flags(advance(L)) ELSE L

\* lines 839-917
scan_opening_paren(L, v) ==
    IF ("OPENING_PAREN" \in v \/ "DOUBLE_OPENING_PAREN" \in v
        \/ "ZSH_EXTENDED_GLOB_FLAGS" \in v) /\ ~ in_error_recovery(v)
    THEN
      LET L1 == skip_wspace(L)
          L2 == mark_end(advance(L1))
      IN
      IF lookahead(L1) # "(" THEN Continue(L1)
      ELSE IF L.wbd THEN
          IF lookahead(L2) = "(" /\ "DOUBLE_OPENING_PAREN" \in v
          THEN LET L3 == clear_bare_dollar(mark_end(advance(L2)))
               IN  Return(set_symbol(
                            [L3 EXCEPT !.sc = enter_context(@, CTX_ARITHMETIC)],
                            "DOUBLE_OPENING_PAREN"), TRUE)
          ELSE IF "OPENING_PAREN" \in v
          THEN LET L3 == clear_bare_dollar(L2)
               IN  Return(set_symbol(
                            [L3 EXCEPT !.sc = enter_context(@, CTX_COMMAND)],
                            "OPENING_PAREN"), TRUE)
          ELSE Continue(L2)
      ELSE IF "OPENING_PAREN" \in v \/ "ZSH_EXTENDED_GLOB_FLAGS" \in v THEN
          IF lookahead(L2) = "#" /\ "ZSH_EXTENDED_GLOB_FLAGS" \in v
          THEN LET L3 == advance(L2)
                   L4 == skip_glob_flags(L3)
               IN  IF L4.p > L3.p /\ lookahead(L4) = ")"
                   THEN Return(set_symbol(mark_end(advance(L4)),
                                          "ZSH_EXTENDED_GLOB_FLAGS"), TRUE)
                   ELSE Return(L4, FALSE)
          ELSE IF "OPENING_PAREN" \in v
          THEN Return(set_symbol(clear_bare_dollar(L2), "OPENING_PAREN"), TRUE)
          ELSE Continue(L2)
      ELSE Continue(L2)
    ELSE Continue(L)

\* lines 919-965
scan_opening_bracket(L, v) ==
    IF ("OPENING_BRACKET" \in v \/ "TEST_COMMAND_START" \in v)
       /\ ~ in_error_recovery(v)
    THEN
      LET L1 == skip_wspace(L)
          L2 == advance(L1)
      IN
      IF lookahead(L1) # "[" THEN Continue(L1)
      ELSE IF lookahead(L2) = "[" /\ "TEST_COMMAND_START" \in v
      THEN LET L3 == mark_end(set_symbol(clear_bare_dollar(advance(L2)),
                                         "TEST_COMMAND_START"))
           IN  Return([L3 EXCEPT !.sc = enter_context(@, CTX_TEST)], TRUE)
      ELSE IF L.wbd /\ "OPENING_BRACKET" \in v
      THEN LET L3 == mark_end(set_symbol(clear_bare_dollar(L2),
                                         "OPENING_BRACKET"))
           IN  Return([L3 EXCEPT !.sc = enter_context(@, CTX_ARITHMETIC)], TRUE)
      ELSE IF "OPENING_BRACKET" \in v
      THEN Return(mark_end(set_symbol(clear_bare_dollar(L2),
                                      "OPENING_BRACKET")), TRUE)
      ELSE Continue(L2)
    ELSE Continue(L)

\* lines 968-1001: a single `]` leaves the context stack alone
scan_closing_bracket(L, v) ==
    IF ("TEST_COMMAND_END" \in v \/ "CLOSING_BRACKET" \in v)
       /\ ~ in_error_recovery(v)
    THEN
      LET L1 == skip_wspace(L)
          L2 == advance(L1)
      IN
      IF lookahead(L1) # "]" THEN Continue(L1)
      ELSE IF lookahead(L2) = "]" /\ "TEST_COMMAND_END" \in v
      THEN LET L3 == mark_end(set_symbol(advance(L2), "TEST_COMMAND_END"))
           IN  Return([L3 EXCEPT !.sc = exit_context(@, CTX_TEST)], TRUE)
      ELSE IF "CLOSING_BRACKET" \in v
      THEN Return(mark_end(set_symbol(clear_bare_dollar(L2),
                                      "CLOSING_BRACKET")), TRUE)
      ELSE Return(L2, FALSE)
    ELSE Continue(L)

\* lines 1003-1033
scan_closing_paren(L, v) ==
    IF ("CLOSING_PAREN" \in v \/ "CLOSING_DOUBLE_PAREN" \in v)
       /\ ~ in_error_recovery(v)
    THEN
      LET L1 == skip_wspace(L)
          L2 == advance(L1)
      IN
      IF lookahead(L1) # ")" THEN Continue(L1)
      ELSE IF lookahead(L2) = ")" /\ "CLOSING_DOUBLE_PAREN" \in v
      THEN LET L3 == mark_end(set_symbol(advance(L2), "CLOSING_DOUBLE_PAREN"))
           IN  Return([L3 EXCEPT !.sc = exit_context(@, CTX_ARITHMETIC)], TRUE)
      ELSE IF "CLOSING_PAREN" \in v
      THEN LET L3 == mark_end(set_symbol(L2, "CLOSING_PAREN"))
           IN  Return([L3 EXCEPT !.sc = exit_context(@, CTX_ARITHMETIC)], TRUE)
      ELSE Return(L2, FALSE)
    ELSE Continue(L)

\* the PATTERN_START handler without the test of the top context
scan_pattern_start_anywhere(L, v) ==
    IF "PATTERN_START" \in v /\ ~ in_error_recovery(v) /\ lookahead(L) # "}"
    THEN Return(mark_end(set_symbol(
                  [L EXCEPT !.sc =
                      enter_context(@, CTX_PARAMETER_PATTERN_SUBSTITUTE)],
                  "PATTERN_START")), TRUE)
    ELSE Continue(L)

\* lines 1037-1059: the new context is pushed on top of CTX_PARAMETER
scan_pattern_start(L, v) ==
    IF "PATTERN_START" \in v /\ ~ in_error_recovery(v)
       /\ get_current_context(L.sc) = CTX_PARAMETER /\ lookahead(L) # "}"
    THEN Return(mark_end(set_symbol(
                  [L EXCEPT !.sc =
                      enter_context(@, CTX_PARAMETER_PATTERN_SUBSTITUTE)],
                  "PATTERN_START")), TRUE)
    ELSE Continue(L)

\* lines 1063-1087
scan_pattern_suffix_start(L, v) ==
    IF "PATTERN_SUFFIX_START" \in v /\ ~ in_error_recovery(v)
       /\ get_current_context(L.sc) = CTX_PARAMETER /\ lookahead(L) # "}"
    THEN Return(mark_end(set_symbol(
                  [L EXCEPT !.sc =
                      enter_context(@, CTX_PARAMETER_PATTERN_SUFFIX)],
                  "PATTERN_SUFFIX_START")), TRUE)
    ELSE Continue(L)

\* lines 1092-1102
scan_colon(L, v) ==
    IF in_parameter_expansion(L.sc) /\ lookahead(L) = ":"
       /\ ~ in_error_recovery(v)
    THEN Return(advance(L), FALSE)
    ELSE Continue(L)

\* lines 1105-1138
scan_hash(L, v) ==
    IF in_parameter_expansion(L.sc) /\ lookahead(L) = "#"
       /\ ~ in_error_recovery(v)
    THEN LET L1 == advance(L)
         IN  IF lookahead(L1) = "#"
             THEN IF "DOUBLE_HASH_PATTERN" \in v
                  THEN Return(mark_end(set_symbol(advance(L1),
                                                  "DOUBLE_HASH_PATTERN")), TRUE)
                  ELSE Return(L1, FALSE)
             ELSE IF "HASH_PATTERN" \in v
                  THEN Return(mark_end(set_symbol(L1, "HASH_PATTERN")), TRUE)
                  ELSE Return(L1, FALSE)
    ELSE Continue(L)

\* lines 1140-1155
scan_immediate_double_hash(L, v) ==
    IF "IMMEDIATE_DOUBLE_HASH" \in v /\ ~ in_error_recovery(v)
       /\ lookahead(L) = "#"
    THEN LET L1 == advance(mark_end(L))
             L2 == advance(L1)
         IN  IF lookahead(L1) = "#"
             THEN IF lookahead(L2) # "}"
                  THEN Return(mark_end(set_symbol(L2, "IMMEDIATE_DOUBLE_HASH")),
                              TRUE)
                  ELSE Continue(L2)
             ELSE Continue(L1)
    ELSE Continue(L)

\* lines 1158-1174
scan_array_token(L, v) ==
    IF ("ARRAY_STAR_TOKEN" \in v \/ "ARRAY_AT_TOKEN" \in v)
       /\ ~ in_error_recovery(v)
    THEN IF lookahead(L) = "*" /\ "ARRAY_STAR_TOKEN" \in v
            /\ "REGEX" \notin v /\ "REGEX_NO_SLASH" \notin v
            /\ "REGEX_NO_SPACE" \notin v
         THEN Return(mark_end(advance(set_symbol(L, "ARRAY_STAR_TOKEN"))), TRUE)
         ELSE IF lookahead(L) = "@" /\ "ARRAY_AT_TOKEN" \in v
         THEN Return(mark_end(advance(set_symbol(L, "ARRAY_AT_TOKEN"))), TRUE)
         ELSE Continue(L)
    ELSE Continue(L)

\* lines 1176-1182: not guarded by error recovery, consumes nothing
scan_empty_value(L, v) ==
    IF "EMPTY_VALUE" \in v
       /\ (iswspace(lookahead(L)) \/ eof(L) \/ lookahead(L) \in {";", "&"})
    THEN Return(set_symbol(L, "EMPTY_VALUE"), TRUE)
    ELSE Continue(L)

\* lines 1184-1191
scan_heredoc_body(L, v) ==
    IF ("HEREDOC_BODY_BEGINNING" \in v \/ "SIMPLE_HEREDOC_BODY" \in v)
       /\ Len(L.sc.heredocs) > 0 /\ ~ BackHeredoc(L.sc).started
       /\ ~ in_error_recovery(v)
    THEN scan_heredoc_content(L, "HEREDOC_BODY_BEGINNING",
                              "SIMPLE_HEREDOC_BODY")
    ELSE Continue(L)

\* a HEREDOC_END handler that drops the heredoc whatever the line holds
scan_heredoc_end_unmatched(L, v) ==
    IF "HEREDOC_END" \in v /\ Len(L.sc.heredocs) > 0
    THEN LET result(r) ==
                 Return(set_symbol(PopHeredoc(r.L), "HEREDOC_END"), TRUE)
         IN  result(scan_heredoc_end_identifier(L))
    ELSE Continue(L)

\* lines 1193-1202
scan_heredoc_end(L, v) ==
    IF "HEREDOC_END" \in v /\ Len(L.sc.heredocs) > 0
    THEN LET result(r) ==
                 IF r.match
                 THEN Return(set_symbol(PopHeredoc(r.L), "HEREDOC_END"), TRUE)
                 ELSE Continue(r.L)
         IN  result(scan_heredoc_end_identifier(L))
    ELSE Continue(L)

\* lines 1204-1209
scan_heredoc_body_content(L, v) ==
    IF "HEREDOC_CONTENT" \in v /\ Len(L.sc.heredocs) > 0
       /\ BackHeredoc(L.sc).started /\ ~ in_error_recovery(v)
    THEN scan_heredoc_content(L, "HEREDOC_CONTENT", "HEREDOC_END")
    ELSE Continue(L)

\* lines 1211-1221
scan_heredoc_start_token(L, v) ==
    IF "HEREDOC_START" \in v /\ ~ in_error_recovery(v)
       /\ Len(L.sc.heredocs) > 0
    THEN scan_heredoc_start(L)
    ELSE Continue(L)

\* lines 460-475
RECURSIVE skip_wspace_in_line(_)
skip_wspace_in_line(L) ==
    LET go_on(M) == IF M = L THEN never_returns(L) ELSE skip_wspace_in_line(M)
    IN  IF iswspace(lookahead(L)) /\ lookahead(L) # "\n" /\ ~ eof(L)
        THEN go_on(skip(L)) ELSE L

scan_raw_dollar(L) ==
    LET L1 == skip_wspace_in_line(L)
        L2 == mark_end(set_symbol(advance(L1), "BARE_DOLLAR"))
    IN  IF lookahead(L1) = "$"
        THEN Return(L2, iswspace(lookahead(L2)) \/ eof(L2)
                        \/ lookahead(L2) = "\"")
        ELSE Return(L1, FALSE)

RECURSIVE advance_alpha(_)
advance_alpha(L) ==
    IF iswalpha(lookahead(L)) THEN advance_alpha(advance(L)) ELSE L

\* lines 1298-1301
test_operator_raw_dollar(L, v) ==
    IF "RAW_DOLLAR" \in v /\ ~ in_error_recovery(v)
    THEN LET result(r) == IF r.ret THEN r ELSE Continue(r.L)
         IN  result(scan_raw_dollar(L))
    ELSE Continue(L)

\* lines 1265-1296
test_operator_dash(L, v) ==
    LET dash == lookahead(L) = "-"
        L1 == advance(L)
        L2 == advance_alpha(L1)
        L3 == advance(mark_end(L2))
    IN  IF dash /\ iswspace(lookahead(L2)) /\ L2.p > L1.p
        THEN IF lookahead(L3) = "}"
                /\ get_current_context(L3.sc) \in ParameterContexts
             THEN IF "EXPANSION_WORD" \in v
                  THEN Return(set_symbol(mark_end(L3), "EXPANSION_WORD"), TRUE)
                  ELSE Return(L3, FALSE)
             ELSE Return(set_symbol(L3, "TEST_OPERATOR"), TRUE)
        ELSE IF dash /\ iswspace(lookahead(L2)) /\ "EXTGLOB_PATTERN" \in v
        THEN Return(set_symbol(L2, "EXTGLOB_PATTERN"), TRUE)
        ELSE test_operator_raw_dollar(IF dash THEN L2 ELSE L, v)

\* lines 1257-1263
test_operator_newline(L, v) ==
    test_operator_dash(IF lookahead(L) = "\n" /\ "NEWLINE" \notin v
                       THEN skip_wspace(skip(L)) ELSE L, v)

\* the TEST_OPERATOR handler without the test of EXPANSION_WORD and
\* without the demotion in front of `}`
scan_test_operator_no_demotion(L, v) ==
    IF "TEST_OPERATOR" \in v
    THEN LET L1 == skip_wspace_in_line(L)
             L2 == advance_alpha(advance(L1))
             L3 == advance(mark_end(L2))
         IN  IF lookahead(L1) = "-" /\ iswspace(lookahead(L2))
                /\ L2.p > L1.p + 1
             THEN Return(set_symbol(L3, "TEST_OPERATOR"), TRUE)
             ELSE Continue(L)
    ELSE Continue(L)

\* lines 1223-1302
scan_test_operator(L, v) ==
    IF "TEST_OPERATOR" \in v /\ "EXPANSION_WORD" \notin v
    THEN LET L1 == skip_wspace_in_line(L)
             L2 == skip(L1)
             L3 == IF lookahead(L2) = "\r"
                   THEN IF lookahead(skip(L2)) = "\n" THEN skip(skip(L2))
                        ELSE skip(L2)
                   ELSE skip(L2)
             backslash == lookahead(L1) = "\\"
         IN  IF backslash /\ "EXTGLOB_PATTERN" \in v
             THEN Goto(L1, "extglob_pattern")
             ELSE IF backslash /\ "REGEX_NO_SPACE" \in v THEN Goto(L1, "regex")
             ELSE IF backslash /\ (eof(L2) \/ lookahead(L2) \notin {"\r", "\n"})
             THEN Return(L2, FALSE)
             ELSE test_operator_newline(IF backslash THEN skip_wspace(L3) ELSE L1,
                                        v)
    ELSE Continue(L)

RECURSIVE advance_name(_)
advance_name(L) ==
    IF iswalnum(lookahead(L)) \/ lookahead(L) = "_"
    THEN advance_name(advance(L)) ELSE L

\* lines 1304-1324
scan_simple_variable_name(L, v) ==
    IF "SIMPLE_VARIABLE_NAME" \in v /\ ~ in_error_recovery(v)
    THEN LET L1 == skip_wspace(L)
             L2 == advance_name(L1)
         IN  IF (iswalpha(lookahead(L1)) \/ lookahead(L1) = "_")
                /\ L2.p > L1.p
             THEN Return(set_symbol(clear_bare_dollar(mark_end(L2)),
                                    "SIMPLE_VARIABLE_NAME"), TRUE)
             ELSE Continue(L1)
    ELSE Continue(L)

\* lines 1326-1356
scan_special_variable_name(L, v) ==
    IF "SPECIAL_VARIABLE_NAME" \in v /\ ~ in_error_recovery(v)
    THEN LET L1 == skip_wspace(L)
             c  == lookahead(L1)
             L2 == advance(L1)
         IN  IF c \in {"*", "@", "?", "!", "#", "-", "$", "_"} \/ iswdigit(c)
             THEN IF ~ (in_parameter_expansion(L1.sc) /\ c \in {"#", "!"})
                  THEN Return(set_symbol(clear_bare_dollar(mark_end(L2)),
                                         "SPECIAL_VARIABLE_NAME"), TRUE)
                  ELSE Return(L2, FALSE)
             ELSE Continue(L1)
    ELSE Continue(L)

\* the VARIABLE_NAME result (lines 1495-1499, 1514-1519, 1525-1529)
variable_name_token(L) ==
    [set_symbol(clear_bare_dollar(L), "VARIABLE_NAME")
        EXCEPT !.sc.just_returned_variable_name = TRUE]

\* lines 1361-1394: leading blanks and line continuations
RECURSIVE variable_name_skip(_, _)
variable_name_skip(L, v) ==
    LET c  == lookahead(L)
        L1 == skip(L)
        L2 == IF lookahead(L1) = "\r" THEN skip(L1) ELSE L1
        go_on(M) == IF M = L THEN Return(never_returns(L), FALSE)
                    ELSE variable_name_skip(M, v)
    IN  IF (c \in {" ", "\t", "\r"} \/ (c = "\n" /\ "NEWLINE" \notin v))
           /\ "EXPANSION_WORD" \notin v
        THEN go_on(L1)
        ELSE IF c = "\\"
        THEN IF eof(L1)
             THEN Return(variable_name_token(mark_end(L1)), TRUE)
             ELSE IF lookahead(L2) = "\n"
             THEN go_on(skip(L2))
             ELSE IF lookahead(L2) = "\\" /\ "EXPANSION_WORD" \in v
             THEN Goto(L2, "expansion_word")
             ELSE Return(L2, FALSE)
        ELSE Continue(L)

RECURSIVE advance_identifier(_, _)
advance_identifier(L, is_number) ==
    IF iswdigit(lookahead(L)) THEN advance_identifier(advance(L), is_number)
    ELSE IF iswalpha(lookahead(L)) \/ lookahead(L) = "_"
    THEN advance_identifier(advance(L), FALSE)
    ELSE [L |-> L, is_number |-> is_number]

\* lines 1480-1533
variable_name_end(L, is_number, v) ==
    LET c   == lookahead(L)
        ctx == get_current_context(L.sc)
        L1  == advance(mark_end(L))
    IN  IF is_number /\ "FILE_DESCRIPTOR" \in v /\ c \in {">", "<"}
        THEN Return(set_symbol(L, "FILE_DESCRIPTOR"), TRUE)
        ELSE IF "VARIABLE_NAME" \in v
        THEN IF c = "+"
             THEN IF lookahead(L1) \in {"=", ":"} \/ ctx \in ParameterContexts
                  THEN Return(variable_name_token(L1), TRUE)
                  ELSE Return(L1, FALSE)
             ELSE IF c = "/" THEN Return(L, FALSE)
             ELSE IF c \in {"=", "[", "%", "@"} \/ (c = "#" /\ ~ is_number)
                     \/ (c = "-" /\ ctx \in ParameterContexts)
             THEN Return(variable_name_token(mark_end(L)), TRUE)
             ELSE IF c = "?"
             THEN Return(variable_name_token(L1), iswalpha(lookahead(L1)))
             ELSE Return(L, FALSE)
        ELSE Return(L, FALSE)

\* lines 1450-1478
variable_name_identifier(L, v) ==
    LET c == lookahead(L)
        r == advance_identifier(L, TRUE)
    IN  IF iswdigit(c) \/ iswalpha(c) \/ c = "_"
        THEN variable_name_end(r.L, r.is_number, v)
        ELSE IF c = "{" THEN Goto(L, "brace_start")
        ELSE IF "EXPANSION_WORD" \in v THEN Goto(L, "expansion_word")
        ELSE IF "EXTGLOB_PATTERN" \in v THEN Goto(L, "extglob_pattern")
        ELSE Return(L, FALSE)

\* the arrow handler with a plain record for `<<-`
variable_name_heredoc_arrow_plain(L, v) ==
    LET L1 == advance(L)
        L2 == advance(L1)
        L3 == advance(L2)
    IN  IF "HEREDOC_ARROW" \in v /\ lookahead(L) = "<"
        THEN IF lookahead(L1) = "<"
             THEN IF lookahead(L2) = "-"
                  THEN Return(set_symbol(
                         [L3 EXCEPT !.sc.heredocs = Append(@, heredoc_new)],
                         "HEREDOC_ARROW_DASH"), TRUE)
                  ELSE IF lookahead(L2) \in {"<", "="}
                  THEN Return(L2, FALSE)
                  ELSE Return(set_symbol(
                         [L2 EXCEPT !.sc.heredocs = Append(@, heredoc_new)],
                         "HEREDOC_ARROW"), TRUE)
             ELSE Return(L1, FALSE)
        ELSE variable_name_identifier(L, v)

\* lines 1416-1448: `<<` and `<<-` push a new heredoc
variable_name_heredoc_arrow(L, v) ==
    LET L1 == advance(L)
        L2 == advance(L1)
        L3 == advance(L2)
    IN  IF "HEREDOC_ARROW" \in v /\ lookahead(L) = "<"
        THEN IF lookahead(L1) = "<"
             THEN IF lookahead(L2) = "-"
                  THEN Return(set_symbol(
                         [L3 EXCEPT !.sc.heredocs = Append(@,
                             [heredoc_new EXCEPT !.allows_indent = TRUE])],
                         "HEREDOC_ARROW_DASH"), TRUE)
                  ELSE IF lookahead(L2) \in {"<", "="}
                  THEN Return(L2, FALSE)
                  ELSE Return(set_symbol(
                         [L2 EXCEPT !.sc.heredocs = Append(@, heredoc_new)],
                         "HEREDOC_ARROW"), TRUE)
             ELSE Return(L1, FALSE)
        ELSE variable_name_identifier(L, v)

\* lines 1396-1414
variable_name_special(L, v) ==
    LET L1 == advance(mark_end(L))
        special == "EXPANSION_WORD" \notin v
                   /\ lookahead(L) \in {"*", "@", "?", "-", "0", "_", "#"}
    IN  IF special /\ lookahead(L1) \in {"=", "[", ":", "-", "%", "/"}
        THEN Return(L1, FALSE)
        ELSE IF special /\ "EXTGLOB_PATTERN" \in v /\ iswspace(lookahead(L1))
        THEN Return(set_symbol(mark_end(L1), "EXTGLOB_PATTERN"), TRUE)
        ELSE variable_name_heredoc_arrow(IF special THEN L1 ELSE L, v)

\* lines 1358-1534
scan_variable_name(L, v) ==
    IF ("VARIABLE_NAME" \in v \/ "FILE_DESCRIPTOR" \in v
        \/ "HEREDOC_ARROW" \in v)
       /\ "REGEX_NO_SLASH" \notin v /\ ~ in_error_recovery(v)
    THEN LET result(r) ==
                 IF r.go = "next" THEN variable_name_special(r.L, v) ELSE r
         IN  result(variable_name_skip(L, v))
    ELSE Continue(L)

\* lines 1536-1539
scan_bare_dollar_raw(L, v) ==
    IF "BARE_DOLLAR" \in v /\ ~ in_error_recovery(v)
    THEN LET result(r) == IF r.ret THEN r ELSE Continue(r.L)
         IN  result(scan_raw_dollar(L))
    ELSE Continue(L)

-----------------------------------------------------------------------------
(* regex: (lines 1541-1727) *)

\* State of the regex loop (lines 1555-1564, 1576)
regex_state ==
    [ advanced_once |-> FALSE, found_non_alnumdollarunderdash |-> FALSE,
      last_was_escape |-> FALSE, in_single_quote |-> FALSE,
      paren_depth |-> 0, bracket_depth |-> 0, brace_depth |-> 0 ]

\* lines 1718-1725
regex_end(L, st, v) ==
    Return(set_symbol(L, IF "REGEX_NO_SLASH" \in v THEN "REGEX_NO_SLASH"
                         ELSE IF "REGEX_NO_SPACE" \in v THEN "REGEX_NO_SPACE"
                         ELSE "REGEX"),
           ~ ("REGEX" \in v /\ ~ st.advanced_once))

\* the switch of lines 1588-1639, without the quote case
regex_switch(c, st) ==
    IF c = "\\" THEN [done |-> FALSE, st |-> [st EXCEPT !.last_was_escape = TRUE]]
    ELSE IF c = "(" THEN
        [done |-> FALSE,
         st |-> [st EXCEPT !.paren_depth = @ + 1, !.last_was_escape = FALSE]]
    ELSE IF c = "[" THEN
        [done |-> FALSE,
         st |-> [st EXCEPT !.bracket_depth = @ + 1, !.last_was_escape = FALSE]]
    ELSE IF c = "{" THEN
        [done |-> FALSE,
         st |-> [st EXCEPT !.brace_depth =
                               IF st.last_was_escape THEN @ ELSE @ + 1,
                           !.last_was_escape = FALSE]]
    ELSE IF c = ")" THEN
        [done |-> st.paren_depth = 0,
         st |-> [st EXCEPT !.paren_depth = IF @ = 0 THEN 0 ELSE @ - 1,
                           !.last_was_escape = FALSE]]
    ELSE IF c = "]" THEN
        [done |-> st.bracket_depth = 0,
         st |-> [st EXCEPT !.bracket_depth = IF @ = 0 THEN 0 ELSE @ - 1,
                           !.last_was_escape = FALSE]]
    ELSE IF c = "}" THEN
        [done |-> st.brace_depth = 0,
         st |-> [st EXCEPT !.brace_depth = IF @ = 0 THEN 0 ELSE @ - 1,
                           !.last_was_escape = FALSE]]
    ELSE [done |-> FALSE, st |-> [st EXCEPT !.last_was_escape = FALSE]]

\* a regex loop that does not take the character it has looked at
regex_advance_idle(L) ==
    L

\* the advance(lexer) that ends a turn of the regex loop (lines 1600-1712)
regex_advance(L) ==
    advance(L)

\* lines 1577-1716
RECURSIVE regex_loop(_, _, _)
regex_loop(L0, st0, v) ==
    LET closing == st0.in_single_quote /\ lookahead(L0) = "'"
        \* lines 1578-1587: leaving a quoted part pushes CTX_PARAMETER
        L  == IF closing
              THEN [mark_end(advance(L0))
                      EXCEPT !.sc = enter_context(@, CTX_PARAMETER)]
              ELSE L0
        sq == IF closing THEN FALSE ELSE st0.in_single_quote
        \* lines 1589-1727: c is the lookahead, sw what the switch gives, L1
        \* the lexer after c; go is the state to go on the loop with
        iterate(c, sw, L1) ==
            LET st == sw.st
                was_space == ~ st.in_single_quote /\ iswspace(c)
                adv == [st EXCEPT !.advanced_once = TRUE]
            IN
            IF c = NUL THEN Return(L, FALSE)
            ELSE IF c = "'" THEN
                [ done |-> FALSE, L |-> L1,
                  st |-> [st0 EXCEPT !.in_single_quote = ~ sq,
                                     !.advanced_once = TRUE,
                                     !.last_was_escape = FALSE] ]
            ELSE IF sw.done THEN regex_end(L, st, v)
            ELSE IF "REGEX" \in v THEN
                [ done |-> FALSE,
                  L |-> IF ~ was_space \/ st.paren_depth > 0 THEN mark_end(L1)
                        ELSE L1,
                  st |-> adv ]
            ELSE IF "REGEX_NO_SLASH" \in v THEN
                IF c = "/"
                THEN Return(set_symbol(mark_end(L), "REGEX_NO_SLASH"),
                            st.advanced_once)
                ELSE IF c = "\\"
                THEN IF ~ eof(L1) /\ lookahead(L1) \notin {"[", "/"}
                     THEN [ done |-> FALSE,
                            L |-> [mark_end(advance(L1))
                                     EXCEPT !.sc = enter_context(@, CTX_PARAMETER)],
                            st |-> adv ]
                     ELSE [done |-> FALSE, L |-> L1, st |-> adv]
                ELSE [ done |-> FALSE,
                       L |-> IF ~ was_space THEN mark_end(L1) ELSE L1,
                       st |-> adv ]
            ELSE IF "REGEX_NO_SPACE" \in v THEN
                IF c = "\\"
                THEN [ done |-> FALSE,
                       L |-> IF ~ eof(L1) THEN advance(L1) ELSE L1,
                       st |-> [st EXCEPT !.found_non_alnumdollarunderdash = TRUE] ]
                ELSE IF c = "$"
                THEN LET L2 == advance(mark_end(L))
                     IN  IF lookahead(L2) = "(" THEN Return(L2, FALSE)
                         ELSE IF iswspace(lookahead(L2))
                         THEN Return(mark_end(set_symbol(L2, "REGEX_NO_SPACE")),
                                     TRUE)
                         ELSE [done |-> FALSE, L |-> L2, st |-> st]
                ELSE IF was_space /\ st.paren_depth = 0
                THEN Return(set_symbol(mark_end(L), "REGEX_NO_SPACE"),
                            st.found_non_alnumdollarunderdash)
                ELSE [ done |-> FALSE, L |-> L1,
                       st |-> [st EXCEPT !.found_non_alnumdollarunderdash =
                                 @ \/ (~ iswalnum(c) /\ c \notin {"$", "-", "_"})] ]
            ELSE [done |-> FALSE, L |-> L, st |-> st]
        go_on(r) ==
            IF r.done THEN r
            ELSE IF r.L = L0 /\ r.st = st0
            THEN Return(never_returns(L0), FALSE)
            ELSE regex_loop(r.L, r.st, v)
    IN  go_on(iterate(lookahead(L),
                      regex_switch(lookahead(L),
                                   [st0 EXCEPT !.in_single_quote = sq]),
                      regex_advance(L)))

\* lines 1541-1727
scan_regex(L, v) ==
    IF ("REGEX" \in v \/ "REGEX_NO_SLASH" \in v \/ "REGEX_NO_SPACE" \in v)
       /\ ~ in_error_recovery(v)
    THEN LET L1 == IF "REGEX" \in v \/ "REGEX_NO_SPACE" \in v
                   THEN skip_wspace(L) ELSE L
             c  == lookahead(L1)
             L2 == advance(mark_end(L1))
             dollar == c = "$" /\ "REGEX_NO_SLASH" \in v
         IN  IF ~ (c \notin {"\"", "'"}
                   \/ (c \in {"$", "'"} /\ "REGEX_NO_SLASH" \in v)
                   \/ (c = "'" /\ "REGEX_NO_SPACE" \in v))
             THEN Continue(L1)
             ELSE IF dollar /\ lookahead(L2) = "(" THEN Return(L2, FALSE)
             ELSE regex_loop(mark_end(IF dollar THEN L2 ELSE L1), regex_state, v)
    ELSE Continue(L)

-----------------------------------------------------------------------------
(* extglob_pattern: (lines 1729-1964) *)

\* lexer->result_symbol = EXTGLOB_PATTERN with last_glob_paren_depth = depth
extglob_token(L, depth) ==
    [set_symbol(L, "EXTGLOB_PATTERN")
        EXCEPT !.sc.last_glob_paren_depth = depth % ByteRange]

non_alphadot(c) ==
    ~ iswalpha(c) /\ c \notin {".", "\\"}

\* the switch of lines 1861-1891
extglob_switch(c, st) ==
    IF c = "(" THEN [done |-> FALSE, st |-> [st EXCEPT !.paren_depth = @ + 1]]
    ELSE IF c = "[" THEN
        [done |-> FALSE, st |-> [st EXCEPT !.bracket_depth = @ + 1]]
    ELSE IF c = "{" THEN
        [done |-> FALSE, st |-> [st EXCEPT !.brace_depth = @ + 1]]
    ELSE IF c = ")" THEN
        [done |-> st.paren_depth = 0,
         st |-> [st EXCEPT !.paren_depth = IF @ = 0 THEN 0 ELSE @ - 1]]
    ELSE IF c = "]" THEN
        [done |-> st.bracket_depth = 0,
         st |-> [st EXCEPT !.bracket_depth = IF @ = 0 THEN 0 ELSE @ - 1]]
    ELSE IF c = "}" THEN
        [done |-> st.brace_depth = 0,
         st |-> [st EXCEPT !.brace_depth = IF @ = 0 THEN 0 ELSE @ - 1]]
    ELSE [done |-> FALSE, st |-> st]

\* lines 1860-1955
RECURSIVE extglob_loop(_, _)
extglob_loop(L, st0) ==
    LET c   == lookahead(L)
        sw  == extglob_switch(c, st0)
        st  == sw.st
        \* lines 1893-1901
        L1  == IF c = "|" THEN advance(mark_end(L)) ELSE L
        c1  == lookahead(L1)
        was_space == iswspace(c1)
        \* lines 1905-1919
        L2  == IF c1 = "$" THEN advance(mark_end(L1)) ELSE L1
        saw2 == st.saw_non_alphadot \/ c1 = "$"
        c2  == lookahead(L2)
        \* lines 1932-1950
        L3  == IF c2 = "\\"
               THEN IF iswspace(lookahead(advance(L2)))
                       \/ lookahead(advance(L2)) = "\""
                    THEN advance(advance(L2)) ELSE advance(L2)
               ELSE advance(L2)
        saw3 == saw2 \/ non_alphadot(c2)
        go_on(M, t) ==
            IF M = L /\ t = st0 THEN Return(never_returns(L), FALSE)
            ELSE extglob_loop(M, t)
    IN
    IF c = NUL THEN Return(L, FALSE)
    ELSE IF c = "|" /\ st.paren_depth = 0 /\ st.bracket_depth = 0
            /\ st.brace_depth = 0
    THEN Return(set_symbol(L1, "EXTGLOB_PATTERN"), TRUE)
    ELSE IF sw.done
    THEN Return(extglob_token(L1, 0), st.saw_non_alphadot)
    ELSE IF c1 = "$" /\ c2 \in {"(", "{"}
    THEN Return(extglob_token(L2, st.paren_depth), saw2)
    ELSE IF was_space
    THEN Return(extglob_token(mark_end(L2), 0), saw2)
    ELSE IF c2 = "\""
    THEN Return(extglob_token(mark_end(L2), 0), saw2)
    ELSE go_on(mark_end(L3), [st EXCEPT !.saw_non_alphadot = saw3])

\* lines 1842-1859
extglob_word(L, was_non_alpha) ==
    LET c == lookahead(L)
    IN  IF ~ iswalnum(c)
           /\ c \notin {"(", "\"", "[", "?", "/", "\\", "_", "*"}
        THEN Return(L, FALSE)
        ELSE extglob_loop(L, [ saw_non_alphadot |-> was_non_alpha,
                               paren_depth |-> L.sc.last_glob_paren_depth,
                               bracket_depth |-> 0, brace_depth |-> 0 ])

\* lines 1808-1840
extglob_case_item(L, was_non_alpha) ==
    LET closes == lookahead(L) = ")" /\ L.sc.last_glob_paren_depth = 0
        L1 == IF closes THEN advance(mark_end(L)) ELSE L
        L2 == IF lookahead(L1) = "$" THEN advance(mark_end(L1)) ELSE L1
    IN  IF closes /\ iswspace(lookahead(L1))
        THEN Return(set_symbol(L1, "EXTGLOB_PATTERN"), was_non_alpha)
        ELSE IF iswspace(lookahead(L1))
        THEN Return(extglob_token(mark_end(L1), 0), TRUE)
        ELSE IF lookahead(L1) = "$" /\ lookahead(L2) \in {"{", "("}
        THEN Return(set_symbol(L2, "EXTGLOB_PATTERN"), TRUE)
        ELSE IF lookahead(L2) = "|"
        THEN Return(set_symbol(advance(mark_end(L2)), "EXTGLOB_PATTERN"), TRUE)
        ELSE extglob_word(L2, was_non_alpha)

RECURSIVE advance_alnum(_)
advance_alnum(L) ==
    IF iswalnum(lookahead(L)) THEN advance_alnum(advance(L)) ELSE L

\* lines 1793-1806
extglob_dash(L, was_non_alpha) ==
    LET L1 == advance_alnum(advance(mark_end(L)))
        dash == lookahead(L) = "-"
    IN  IF dash /\ lookahead(L1) \in {")", "\\", "."} THEN Return(L1, FALSE)
        ELSE extglob_case_item(IF dash THEN mark_end(L1) ELSE L, was_non_alpha)

\* lines 1769-1791: the first character, but not the word esac
extglob_first(L0) ==
    LET L  == mark_end(L0)
        e1 == advance(mark_end(L))
        e2 == advance(e1)
        e3 == advance(e2)
        e4 == advance(e3)
        esac == lookahead(L) = "e" /\ lookahead(e1) = "s"
                /\ lookahead(e2) = "a" /\ lookahead(e3) = "c"
    IN  IF esac /\ iswspace(lookahead(e4)) THEN Return(e4, FALSE)
        ELSE extglob_dash(
                 IF lookahead(L) = "[" THEN L
                 ELSE IF lookahead(L) # "e" THEN advance(L)
                 ELSE IF lookahead(e1) # "s" THEN e1
                 ELSE IF lookahead(e2) # "a" THEN e2
                 ELSE IF lookahead(e3) # "c" THEN e3
                 ELSE e4,
                 ~ iswalpha(lookahead(L)))

\* lines 1759-1767
extglob_leading_paren(L) ==
    LET L1 == advance(mark_end(L))
        closes == lookahead(L) = ")" /\ L.sc.last_glob_paren_depth = 0
    IN  IF closes /\ iswspace(lookahead(L1)) THEN Return(L1, FALSE)
        ELSE extglob_first(IF closes THEN L1 ELSE L)

\* lines 1729-1964
scan_extglob_pattern(L, v) ==
    IF in_parameter_expansion(L.sc) /\ "EXTGLOB_PATTERN" \in v
    THEN Return(L, FALSE)
    ELSE IF "EXTGLOB_PATTERN" \in v /\ ~ in_error_recovery(v)
            /\ "REGEX" \notin v /\ "REGEX_NO_SLASH" \notin v
            /\ "REGEX_NO_SPACE" \notin v
    THEN LET L1 == skip_wspace(L)
             c  == lookahead(L1)
             L2 == advance(L1)
             escapes == (iswspace(lookahead(L2)) \/ lookahead(L2) = "\"")
                        /\ lookahead(L2) \notin {"\r", "\n"}
         IN  IF ~ (c \in {"?", "*", "+", "@", "!", "-", ")", "\\", ".", "["}
                   \/ iswalpha(c))
             THEN Return([L1 EXCEPT !.sc.last_glob_paren_depth = 0], FALSE)
             ELSE IF c = "\\" /\ ~ escapes THEN Return(L2, FALSE)
             ELSE extglob_leading_paren(IF c = "\\" THEN advance(L2) ELSE L1)
    ELSE Continue(L)

-----------------------------------------------------------------------------
(* expansion_word: (lines 1966-2135) *)

expansion_word_token(L) ==
    Return(set_symbol(mark_end(L), "EXPANSION_WORD"), TRUE)

starts_expansion(c) ==
    c \in {"{", "(", "'"} \/ iswalnum(c)

\* lines 2019-2069: the parenthesised part; r.out.done tells that scan returned
RECURSIVE expansion_word_paren(_, _, _)
expansion_word_paren(L, ao, aos) ==
    LET c  == lookahead(L)
        L1 == advance(mark_end(L))
        go_on(M, a, b) ==
            IF M = L /\ a = ao /\ b = aos
            THEN [out |-> Return(never_returns(L), FALSE), ao |-> ao, aos |-> aos]
            ELSE expansion_word_paren(M, a, b)
    IN  IF c = ")" \/ eof(L)
        THEN [out |-> Continue(L), ao |-> ao, aos |-> aos]
        ELSE IF c = "$"
        THEN IF starts_expansion(lookahead(L1))
             THEN [out |-> Return(set_symbol(L1, "EXPANSION_WORD"), TRUE),
                   ao |-> ao, aos |-> aos]
             ELSE go_on(L1, TRUE, aos)
        ELSE IF should_stop_at_pattern_operators(L.sc)
                /\ c \in {"]", "#", "%", ":"}
        THEN [out |-> expansion_word_token(L), ao |-> ao, aos |-> aos]
        ELSE go_on(advance(L), ao \/ ~ iswspace(c), aos \/ iswspace(c))

\* lines 1986-2130
RECURSIVE expansion_word_loop(_, _, _)
expansion_word_loop(L, ao0, aos0) ==
    LET c   == lookahead(L)
        L1  == IF c = "$" THEN advance(mark_end(L)) ELSE L
        ao1 == ao0 \/ c = "$"
        c1  == lookahead(L1)
        opens == c1 = "(" /\ ~ (ao1 \/ aos0)
        \* lines 2085-2131: L2 is the lexer after the parenthesised part
        rest(L2, ao2, aos2, c2) ==
            IF c2 = "'" THEN Return(L2, FALSE)
            ELSE IF eof(L2) THEN Return(L2, FALSE)
            ELSE IF should_stop_at_pattern_operators(L2.sc) /\ c2 = "]"
            THEN expansion_word_token(L2)
            ELSE IF should_stop_at_pattern_operators(L2.sc) /\ c2 = "/"
                    /\ get_current_context(L2.sc) = CTX_PARAMETER_PATTERN_SUBSTITUTE
                    /\ ~ ao2
            THEN expansion_word_token(L2)
            ELSE [ done |-> FALSE, L |-> advance(L2),
                   ao |-> ao2 \/ ~ iswspace(c2), aos |-> aos2 \/ iswspace(c2) ]
        rest_at(L2, ao2, aos2) == rest(L2, ao2, aos2, lookahead(L2))
        \* lines 2010-2083: pr is what the parenthesised part gives
        after_paren(pr) ==
            IF opens /\ pr.out.done THEN pr.out
            ELSE IF opens /\ lookahead(pr.out.L) # ")"
            THEN Return(mark_end(pr.out.L), FALSE)
            ELSE rest_at(IF opens THEN mark_end(advance(pr.out.L)) ELSE L1,
                         IF opens THEN TRUE ELSE ao1,
                         IF opens THEN pr.aos ELSE aos0)
        iteration ==
            IF c = "\"" THEN Return(L, FALSE)
            ELSE IF c = "$" /\ starts_expansion(c1)
            THEN Return(set_symbol(L1, "EXPANSION_WORD"), TRUE)
            ELSE IF c1 = "/" /\ should_stop_at_pattern_slash(L1.sc)
            THEN expansion_word_token(L1)
            ELSE IF c1 = "}" /\ in_parameter_expansion(L1.sc)
            THEN expansion_word_token(L1)
            ELSE after_paren(expansion_word_paren(advance(mark_end(L1)), ao1, aos0))
        go_on(r) ==
            IF r.done THEN r
            ELSE IF r.L = L /\ r.ao = ao0 /\ r.aos = aos0
            THEN Return(never_returns(L), FALSE)
            ELSE expansion_word_loop(r.L, r.ao, r.aos)
    IN  go_on(iteration)

\* lines 1966-2135
scan_expansion_word(L, v) ==
    IF "EXPANSION_WORD" \in v
    THEN IF L.wvn /\ lookahead(L) \in {"#", "%"} THEN Return(L, FALSE)
         ELSE expansion_word_loop(L, FALSE, FALSE)
    ELSE Continue(L)

-----------------------------------------------------------------------------
(* brace_start: (lines 2138-2178) *)

RECURSIVE advance_digits(_)
advance_digits(L) ==
    IF iswdigit(lookahead(L)) THEN advance_digits(advance(L)) ELSE L

brace_start(L, v) ==
    IF "BRACE_START" \in v /\ ~ in_error_recovery(v)
    THEN LET L1 == skip_wspace(L)
             L2 == advance_digits(mark_end(advance(L1)))
             L3 == advance(L2)
             L4 == advance_digits(advance(L3))
         IN  IF lookahead(L1) # "{" THEN Return(L1, FALSE)
             ELSE IF lookahead(L2) # "." THEN Return(L2, FALSE)
             ELSE IF lookahead(L3) # "." THEN Return(L3, FALSE)
             ELSE IF lookahead(L4) # "}" THEN Return(L4, FALSE)
             ELSE Return(set_symbol(L4, "BRACE_START"), TRUE)
    ELSE Continue(L)

-----------------------------------------------------------------------------
(* scan (lines 622-2181): the handlers in the order of the source.  A label *)
(* of the source is the name of the handler it stands before.               *)

Handlers ==
    << "newline", "closing_brace", "concat", "bare_dollar",
       "peek_bare_dollar", "brace_start_after_dollar", "opening_paren",
       "opening_bracket", "closing_bracket", "closing_paren",
       "pattern_start", "pattern_suffix_start", "colon", "hash",
       "immediate_double_hash", "array_token", "empty_value",
       "heredoc_body", "heredoc_end", "heredoc_content", "heredoc_start",
       "test_operator", "simple_variable_name", "special_variable_name",
       "variable_name", "raw_dollar", "regex", "extglob_pattern",
       "expansion_word", "brace_start" >>

Handler(name, L, v) ==
    CASE name = "newline" -> scan_newline(L, v)
      [] name = "closing_brace" -> scan_closing_brace(L, v)
      [] name = "concat" -> scan_concat(L, v)
      [] name = "bare_dollar" -> scan_bare_dollar(L, v)
      [] name = "peek_bare_dollar" -> scan_peek_bare_dollar(L, v)
      [] name = "brace_start_after_dollar" -> scan_brace_start(L, v)
      [] name = "opening_paren" -> scan_opening_paren(L, v)
      [] name = "opening_bracket" -> scan_opening_bracket(L, v)
      [] name = "closing_bracket" -> scan_closing_bracket(L, v)
      [] name = "closing_paren" -> scan_closing_paren(L, v)
      [] name = "pattern_start" -> scan_pattern_start(L, v)
      [] name = "pattern_suffix_start" -> scan_pattern_suffix_start(L, v)
      [] name = "colon" -> scan_colon(L, v)
      [] name = "hash" -> scan_hash(L, v)
      [] name = "immediate_double_hash" -> scan_immediate_double_hash(L, v)
      [] name = "array_token" -> scan_array_token(L, v)
      [] name = "empty_value" -> scan_empty_value(L, v)
      [] name = "heredoc_body" -> scan_heredoc_body(L, v)
      [] name = "heredoc_end" -> scan_heredoc_end(L, v)
      [] name = "heredoc_content" -> scan_heredoc_body_content(L, v)
      [] name = "heredoc_start" -> scan_heredoc_start_token(L, v)
      [] name = "test_operator" -> scan_test_operator(L, v)
      [] name = "simple_variable_name" -> scan_simple_variable_name(L, v)
      [] name = "special_variable_name" -> scan_special_variable_name(L, v)
      [] name = "variable_name" -> scan_variable_name(L, v)
      [] name = "raw_dollar" -> scan_bare_dollar_raw(L, v)
      [] name = "regex" -> scan_regex(L, v)
      [] name = "extglob_pattern" -> scan_extglob_pattern(L, v)
      [] name = "expansion_word" -> scan_expansion_word(L, v)
      [] name = "brace_start" -> brace_start(L, v)

LabelIndex(label) ==
    CHOOSE i \in 1..Len(Handlers) : Handlers[i] = label

RECURSIVE scan_from(_, _, _)
scan_from(i, L, v) ==
    IF i > Len(Handlers) THEN Return(L, FALSE)
    ELSE LET follow(r) ==
                 IF r.done THEN r
                 ELSE IF r.go = "next" THEN scan_from(i + 1, r.L, v)
                 ELSE scan_from(LabelIndex(r.go), r.L, v)
         IN  follow(Handler(Handlers[i], L, v))

\* one call of the scan entry point at position p: the value returned, the
\* result symbol, the end of the token (the marked end, or else the position
\* reached) and the scanner afterwards
scan(sc, p, valid_symbols) ==
    LET result(r) ==
            [ ret |-> r.ret /\ ~ r.L.hung, sym |-> r.L.sym,
              end |-> IF r.L.e >= 0 THEN r.L.e ELSE r.L.p,
              reached |-> r.L.p,
              scanner |-> r.L.sc,
              hang |-> r.L.hung ]
    IN  result(scan_from(1, capture_history(sc, p), valid_symbols))

-----------------------------------------------------------------------------
(* The host: calls made on the scanner *)

\* bound on the depth of the context stack under the free driver
MaxContexts ==
    3

\* bound on the number of pending heredocs under the free driver
MaxHeredocs ==
    2

\* length of the longest document given to the free driver
MaxText ==
    13

\* number of parse steps after which the host drops a snapshot
MaxRewind ==
    2

\* number of times the host goes back to a snapshot in one run
MaxDeserialize ==
    1

NoCall ==
    [kind |-> "none"]

NoBuffer ==
    [ taken |-> FALSE, fresh |-> FALSE, age |-> 0, uses |-> 0,
      bytes |-> <<>>, len |-> 0,
      pos |-> 0, step |-> 1, hist |-> [declared |-> <<>>, ended |-> <<>>] ]

NoReplica ==
    [restored |-> FALSE, scanner |-> create]

\* the valid sets the free driver passes: one token, a set of the grammar, or
\* all of them (error recovery)
ValidSets ==
    { {t} : t \in TokenType \ {"ERROR_RECOVERY"} }
    \cup { VStatement, VAfterDollar, VExpansionStart, VAfterName, VPattern,
           VPatternNoSlash, VAfterPattern, VAfterWord, VArithmeticEnd,
           VTestEnd, VHeredocBody, VAfterConcat, VExpansionValue }
    \cup { TokenType }

\* concatenation (src/grammar.js): _peek_bare_dollar is valid only right
\* after _concat or the backtick pair
PeekAllowed(v) ==
    "PEEK_BARE_DOLLAR" \in v /\ "ERROR_RECOVERY" \notin v
        => \/ last.kind = "scan" /\ last.ret /\ last.sym = "CONCAT"
           \/ last.kind = "internal"

\* what the most recent call was and gave; `after` is the token of the scan
\* call just before it, if that call emitted one; `recovery` tells that the
\* call was made with ERROR_RECOVERY valid
ScanCall(r, p, v) ==
    [ kind |-> "scan", ret |-> r.ret, sym |-> r.sym, start |-> p,
      end |-> IF r.ret THEN r.end ELSE p,
      after |-> IF last.kind = "scan" /\ last.ret THEN last.sym ELSE "",
      recovery |-> "ERROR_RECOVERY" \in v,
      hang |-> r.hang, reached |-> r.reached ]

\* heredoc_start names the delimiter of a declared heredoc; a heredoc is
\* ended when its record is popped
HistAfter(h, sc, r) ==
    IF r.ret /\ r.sym = "HEREDOC_START"
    THEN [h EXCEPT !.declared = Append(@, BackHeredoc(r.scanner).delimiter)]
    ELSE IF r.ret /\ Len(r.scanner.heredocs) < Len(sc.heredocs)
    THEN [h EXCEPT !.ended = Append(@, BackHeredoc(sc).delimiter)]
    ELSE h

\* the host ages the snapshot it holds, and drops it after MaxRewind steps
Aged(b) ==
    IF ~ b.taken THEN b
    ELSE IF b.age >= MaxRewind THEN [NoBuffer EXCEPT !.uses = b.uses]
    ELSE [b EXCEPT !.age = @ + 1, !.fresh = FALSE]

InitWith(documents) ==
    /\ scanner = create
    /\ input \in documents
    /\ pos = 0
    /\ last = NoCall
    /\ step = 1
    /\ perr = FALSE
    /\ hist = [declared |-> <<>>, ended |-> <<>>]
    /\ buffer = NoBuffer
    /\ replica = NoReplica
    /\ host = "running"

\* tree_sitter_zsh_external_scanner_scan, called with any valid set
Scan(v) ==
    /\ host = "running"
    /\ PeekAllowed(v)
    /\ LET call(r) ==
               /\ Len(r.scanner.context_stack) <= MaxContexts
               /\ Len(r.scanner.heredocs) <= MaxHeredocs
               /\ scanner' = r.scanner
               /\ pos' = IF r.ret THEN r.end ELSE pos
               /\ last' = ScanCall(r, pos, v)
               /\ hist' = HistAfter(hist, scanner, r)
               /\ host' = IF r.hang THEN "hung" ELSE host
       IN  call(scan(scanner, pos, v))
    /\ UNCHANGED <<input, step, perr, buffer, replica>>

\* one character taken by the lexer of the grammar
InternalLex ==
    /\ host = "running"
    /\ pos < TextLen
    /\ pos' = pos + 1
    /\ last' = [kind |-> "internal"]
    /\ UNCHANGED <<scanner, input, step, perr, hist, buffer, replica, host>>

\* the next call of the parse script
ParseStep ==
    /\ host = "running"
    /\ ~ perr
    /\ step <= ScriptLen
    /\ LET s == ScriptAt(step)
           call(r) ==
               /\ scanner' = r.scanner
               /\ last' = ScanCall(r, pos, s.valid)
               /\ hist' = HistAfter(hist, scanner, r)
               /\ host' = IF r.hang THEN "hung" ELSE host
               /\ IF r.ret /\ r.sym = s.expect
                  THEN pos' = r.end /\ step' = step + 1 /\ perr' = FALSE
                  ELSE IF ~ r.ret /\ s.k = "lit"
                  THEN pos' = pos + s.n /\ step' = step + 1 /\ perr' = FALSE
                  ELSE pos' = pos /\ step' = step /\ perr' = TRUE
       IN  IF s.k = "int"
           THEN /\ pos' = pos + s.n
                /\ step' = step + 1
                /\ last' = [kind |-> "internal"]
                /\ UNCHANGED <<scanner, perr, hist, host>>
           ELSE call(scan(scanner, pos, s.valid))
    /\ buffer' = Aged(buffer)
    /\ replica' = NoReplica
    /\ UNCHANGED input

\* tree_sitter_zsh_external_scanner_serialize
Serialize ==
    /\ host = "running"
    /\ ~ buffer.fresh
    /\ LET call(b) ==
               buffer' = [ taken |-> TRUE, fresh |-> TRUE, age |-> 0,
                           uses |-> buffer.uses,
                           bytes |-> b.buf, len |-> b.len,
                           pos |-> pos, step |-> step, hist |-> hist ]
       IN  call(serialize(scanner))
    /\ replica' = NoReplica
    /\ UNCHANGED <<scanner, input, pos, last, step, perr, hist, host>>

\* lengths the host may pass with a snapshot of n bytes: all of it, none of
\* it, or a truncation
Lengths(n) ==
    { l \in {0, 1, HeaderSize - 1, HeaderSize, HeaderSize + 1, n - 1, n} :
        0 <= l /\ l <= n }

\* what becomes of the process after a deserialize: a failed assert aborts a
\* build with assertions and passes unnoticed in one without; reads outside
\* the snapshot are undefined
HostAfter(r, abort) ==
    IF r.crash \/ r.overread THEN "undefined"
    ELSE IF ~ r.assert_ok /\ abort THEN "aborted"
    ELSE "running"

DeserializeCall(r, length) ==
    [ kind |-> "deserialize", length |-> length, size |-> r.size,
      overread |-> r.overread, crash |-> r.crash, assert_ok |-> r.assert_ok ]

\* tree_sitter_zsh_external_scanner_deserialize into the scanner in use; the
\* parse goes on from the point of the snapshot (from the start of the
\* document for the empty snapshot)
Deserialize(length, g, abort) ==
    /\ host = "running"
    /\ buffer.taken
    /\ buffer.uses < MaxDeserialize
    /\ length \in Lengths(buffer.len)
    /\ LET call(r) ==
               /\ scanner' = r.scanner
               /\ last' = DeserializeCall(r, length)
               /\ host' = IF 0 < length /\ length < buffer.len
                             /\ HostAfter(r, abort) = "running"
                          THEN "truncated"
                          ELSE HostAfter(r, abort)
       IN  call(deserialize(scanner, buffer.bytes, length, g))
    /\ pos' = IF length = 0 THEN 0 ELSE buffer.pos
    /\ step' = IF length = 0 THEN 1 ELSE buffer.step
    /\ hist' = IF length = 0 THEN NoBuffer.hist ELSE buffer.hist
    /\ perr' = FALSE
    /\ buffer' = [buffer EXCEPT !.fresh = FALSE, !.uses = @ + 1]
    /\ UNCHANGED <<input, replica>>

\* create, then deserialize of the whole snapshot into the new instance
Restore(g) ==
    /\ host = "running"
    /\ buffer.taken
    /\ ~ replica.restored
    /\ LET call(r) ==
               replica' = [ restored |-> TRUE, scanner |-> r.scanner,
                            call |-> DeserializeCall(r, buffer.len) ]
       IN  call(deserialize(create, buffer.bytes, buffer.len, g))
    /\ UNCHANGED <<scanner, input, pos, last, step, perr, hist, buffer, host>>

-----------------------------------------------------------------------------
(* Specifications *)

\* any sequence of scan calls on the documents of Corpus
\* the documents on the forms of `<<` and of the delimiter line
DelimiterDocuments ==
    { d \in Documents :
        d.name \in {"dash_heredoc", "herestring", "shift_assign",
                    "prefix_line", "indented"} }

\* the documents with a dash word inside a parameter expansion
WordDocuments ==
    { d \in Documents : d.name \in {"demote", "lone_dash"} }

\* the documents with a heredoc
HeredocDocuments ==
    { d \in Documents :
        d.name \in {"heredoc", "heredoc_expansion", "unterminated"} }

Init ==
    InitWith({ d \in Documents :
                 /\ d.name # "deep" /\ Len(d.text) <= MaxText
                 /\ d.name \notin {"heredoc_expansion", "unterminated",
                                   "range", "spaced", "dollar_body"}
                 /\ d \notin WordDocuments
                 /\ d \notin DelimiterDocuments })

Next ==
    \/ \E v \in ValidSets : Scan(v)
    \/ InternalLex

Spec ==
    Init /\ [][Next]_vars

\* the documents with braces
BraceDocuments ==
    { d \in Documents :
        d.name \in {"brace", "suffix_pattern", "substitute", "range",
                    "spaced"} }

\* any sequence of calls on the documents with braces
InitBrace ==
    InitWith(BraceDocuments)

SpecBrace ==
    InitBrace /\ [][Next]_vars

\* any sequence of calls on the documents of DelimiterDocuments
InitDelimiter ==
    InitWith(DelimiterDocuments)

SpecDelimiter ==
    InitDelimiter /\ [][Next]_vars

\* any sequence of calls on the documents of WordDocuments
InitWord ==
    InitWith(WordDocuments)

SpecWord ==
    InitWord /\ [][Next]_vars

\* any sequence of calls on the documents with a heredoc
InitHeredoc ==
    InitWith(HeredocDocuments)

SpecHeredoc ==
    InitHeredoc /\ [][Next]_vars

\* the documents that come with the calls of their parse
Scripted ==
    { d \in Documents : Len(d.script) > 0 }

\* the parse of a well-formed document
InitParse ==
    InitWith(Scripted)

NextParse ==
    ParseStep

SpecParse ==
    InitParse /\ [][NextParse]_vars

\* a parse whose host takes snapshots and goes back to them
NextHost ==
    \/ ParseStep
    \/ Serialize
    \/ \E length \in Lengths(buffer.len), g \in {0, 1}, abort \in BOOLEAN :
          Deserialize(length, g, abort)
    \/ \E g \in {0, 1} : Restore(g)

InitHost ==
    InitWith({ d \in Scripted : d.name # "deep" })

SpecHost ==
    InitHost /\ [][NextHost]_vars

\* the parse of the deep document, with snapshots restored into new instances
InitDeep ==
    InitWith({DeepDoc})

NextDeep ==
    \/ ParseStep
    \/ Serialize
    \/ \E g \in {0, 1} : Restore(g)

SpecDeep ==
    InitDeep /\ [][NextDeep]_vars

-----------------------------------------------------------------------------
(* Properties *)

\* equality of two scanner states on the fields that are serialized
SameFields(a, b) ==
    /\ a.last_glob_paren_depth = b.last_glob_paren_depth
    /\ a.ext_was_in_double_quote = b.ext_was_in_double_quote
    /\ a.ext_saw_outside_quote = b.ext_saw_outside_quote
    /\ Len(a.context_stack) = Len(b.context_stack)
    /\ \A i \in 1..Len(a.context_stack) : a.context_stack[i] = b.context_stack[i]
    /\ a.just_returned_variable_name = b.just_returned_variable_name
    /\ a.just_returned_bare_dollar = b.just_returned_bare_dollar
    /\ Len(a.heredocs) = Len(b.heredocs)
    /\ \A i \in 1..Len(a.heredocs) :
          /\ a.heredocs[i].is_raw = b.heredocs[i].is_raw
          /\ a.heredocs[i].started = b.heredocs[i].started
          /\ a.heredocs[i].allows_indent = b.heredocs[i].allows_indent
          /\ a.heredocs[i].delimiter = b.heredocs[i].delimiter

Emitted(call, token) ==
    call.kind = "scan" /\ call.ret /\ call.sym = token

IsPrefix(s, t) ==
    Len(s) <= Len(t) /\ \A i \in 1..Len(s) : s[i] = t[i]

\* bytes a state needs: header, context tags, heredoc records
RECURSIVE HeredocBytes(_, _)
HeredocBytes(hs, i) ==
    IF i > Len(hs) THEN 0
    ELSE HeredocFixed + Len(hs[i].delimiter) + HeredocBytes(hs, i + 1)

StateBytes(sc) ==
    HeaderSize + Len(sc.context_stack) + HeredocBytes(sc.heredocs, 1)

\* C1: a snapshot of the scanner in use, deserialized into a new instance,
\* gives a state equal to the one serialized on every serialized field.
C1_RoundTrip ==
    replica.restored /\ buffer.fresh => SameFields(replica.scanner, scanner)

\* C2: when the parse of a well-formed document whose openers are all closed
\* has reached its end, the context stack is empty.
C2_BalancedContexts ==
    input.name # "deep" /\ ~ perr /\ step > ScriptLen
        => Len(scanner.context_stack) = 0

Consuming ==
    { "BARE_DOLLAR", "BRACE_START", "OPENING_PAREN", "DOUBLE_OPENING_PAREN",
      "OPENING_BRACKET", "TEST_COMMAND_START", "TEST_COMMAND_END",
      "CLOSING_BRACE", "CLOSING_PAREN", "CLOSING_DOUBLE_PAREN",
      "CLOSING_BRACKET", "HASH_PATTERN", "DOUBLE_HASH_PATTERN",
      "IMMEDIATE_DOUBLE_HASH", "ARRAY_STAR_TOKEN", "ARRAY_AT_TOKEN",
      "HEREDOC_ARROW", "HEREDOC_ARROW_DASH", "HEREDOC_START",
      "SIMPLE_VARIABLE_NAME", "SPECIAL_VARIABLE_NAME", "VARIABLE_NAME",
      "TEST_OPERATOR" }

C5_HeredocOrder ==
    IsPrefix(hist.ended, hist.declared)

\* C6: after a scan call a history flag is true only if that very call set
\* it, in the handler of the token the flag stands for (the result symbol of
\* the call is that token): a flag set by one call is cleared on entry to
\* the next.
C6_HistoryFlags ==
    last.kind = "scan"
        => /\ scanner.just_returned_bare_dollar => last.sym = "BARE_DOLLAR"
           /\ scanner.just_returned_variable_name
                 => last.sym = "VARIABLE_NAME"

C6_FlagCleared ==
    /\ last.kind = "scan" /\ last.after = "BARE_DOLLAR"
    /\ ~ Emitted(last, "BARE_DOLLAR")
    /\ ~ scanner.just_returned_bare_dollar

\* C7: after deserialize with length zero the scanner is equal to a newly
\* created one.
C7_EmptyBufferResets ==
    last.kind = "deserialize" /\ last.length = 0 => scanner = create

\* C8: deserialize of a truncated snapshot resets the scanner, reads nothing
\* at or past the length it is given, and does not fail.
C8_TruncationResets ==
    last.kind = "deserialize" /\ 0 < last.length /\ last.length < buffer.len
        => /\ scanner = create
           /\ ~ last.overread
           /\ ~ last.crash
           /\ last.assert_ok

\* C9: serialize writes no byte past the buffer and returns no length
\* larger than it, and returns 0 when the state needs more than the buffer.
C9_SerializeFits ==
    buffer.taken /\ buffer.fresh
        => /\ Len(buffer.bytes) <= BufferSize
           /\ buffer.len <= BufferSize
           /\ StateBytes(scanner) > BufferSize => buffer.len = 0

C9_TooLargeSeen ==
    buffer.taken /\ buffer.fresh /\ StateBytes(scanner) > BufferSize
    /\ buffer.len = 0

\* C10: the scanner in use and a new instance, once they have deserialized
\* the same non-empty snapshot, are in equal states.
C10_DeserializeReplaces ==
    /\ last.kind = "deserialize" /\ last.length = buffer.len /\ buffer.len > 0
    /\ replica.restored
    => replica.scanner = scanner

\* number of entries of a context stack that are the context c
CountOf(stack, c) ==
    Cardinality({ i \in 1..Len(stack) : stack[i] = c })

\* the stack without its top entry
Popped(stack) ==
    SubSeq(stack, 1, Len(stack) - 1)

\* C11: a scan call adds a PARAMETER entry to the context stack only when it
\* emits BRACE_START, and a scan call that emits CLOSING_BRACE removes
\* exactly one entry, which is that PARAMETER entry.
C11_ParameterPairs ==
    [][ last'.kind = "scan" =>
          /\ CountOf(scanner'.context_stack, CTX_PARAMETER)
                  > CountOf(scanner.context_stack, CTX_PARAMETER)
                => Emitted(last', "BRACE_START")
          /\ Emitted(last', "CLOSING_BRACE")
                => /\ get_current_context(scanner) = CTX_PARAMETER
                   /\ scanner'.context_stack = Popped(scanner.context_stack)
      ]_vars

\* a scanner with both history flags false
FlagsCleared(sc) ==
    [sc EXCEPT !.just_returned_variable_name = FALSE,
               !.just_returned_bare_dollar = FALSE]

\* C12: a scan call that returns false leaves the glob depth, the ext flags,
\* the context stack and the heredocs as they were on entry, and leaves both
\* history flags false.
C12_FailureFrame ==
    [][ last'.kind = "scan" /\ ~ last'.ret
            => SameFields(scanner', FlagsCleared(scanner)) ]_vars

\* the tokens at which the context stack may change
TransitionTokens ==
    { "BRACE_START", "OPENING_PAREN", "DOUBLE_OPENING_PAREN",
      "TEST_COMMAND_START", "OPENING_BRACKET", "PATTERN_START",
      "PATTERN_SUFFIX_START", "CLOSING_BRACE", "CLOSING_PAREN",
      "CLOSING_DOUBLE_PAREN", "CLOSING_BRACKET", "TEST_COMMAND_END" }

\* C13: a scan call that changes the context stack emits one of the
\* transition tokens; every other scan call, one that scans a REGEX-family
\* token included, leaves the context stack as it was.
C13_ContextFrame ==
    [][ last'.kind = "scan"
          /\ scanner'.context_stack # scanner.context_stack
            => last'.ret /\ last'.sym \in TransitionTokens ]_vars

\* C14: a scan call made with ERROR_RECOVERY valid pushes no context (the
\* context stack after the call is a prefix of the one before it) and pushes
\* no heredoc: the heredocs do not grow and neither HEREDOC_ARROW nor
\* HEREDOC_ARROW_DASH is emitted.
C14_RecoveryPushesNothing ==
    [][ last'.kind = "scan" /\ last'.recovery
          => /\ IsPrefix(scanner'.context_stack, scanner.context_stack)
             /\ Len(scanner'.heredocs) <= Len(scanner.heredocs)
             /\ ~ Emitted(last', "HEREDOC_ARROW")
             /\ ~ Emitted(last', "HEREDOC_ARROW_DASH") ]_vars

\* a recovery call was made at `<<`, where a heredoc would otherwise start
C14_RecoveryAtArrow ==
    /\ last.kind = "scan" /\ last.recovery
    /\ TextAt(last.start + 1) = "<" /\ TextAt(last.start + 2) = "<"
    /\ last.start + 2 <= TextLen

\* the tokens the scanner recognises speculatively
SpeculativeTokens ==
    { "REGEX", "REGEX_NO_SLASH", "REGEX_NO_SPACE", "EXTGLOB_PATTERN",
      "EXPANSION_WORD" }

\* C15: a scan call made with ERROR_RECOVERY valid emits none of REGEX,
\* REGEX_NO_SLASH, REGEX_NO_SPACE, EXTGLOB_PATTERN and EXPANSION_WORD.
C15_RecoveryNotSpeculative ==
    last.kind = "scan" /\ last.recovery /\ last.ret
        => last.sym \notin SpeculativeTokens

\* the delimiter d, a C string, stands in the text right after position p
DelimiterAt(d, p) ==
    LET result(s) ==
            /\ Len(s) > 0
            /\ p >= 0 /\ p + Len(s) <= TextLen
            /\ \A i \in 1..Len(s) : CharByte(TextAt(p + i)) = s[i]
    IN  result(CString(d))

\* C16: a scan call shortens the heredocs only by removing the last record,
\* in a call that emits HEREDOC_END and has matched the delimiter of that
\* record in the text (the delimiter ends the token or follows it); every
\* other scan call, a body or content scan included, keeps every record.
C16_HeredocRemoval ==
    [][ last'.kind = "scan" /\ Len(scanner'.heredocs) < Len(scanner.heredocs)
          => /\ Emitted(last', "HEREDOC_END")
             /\ scanner'.heredocs = Popped(scanner.heredocs)
             /\ LET d == BackHeredoc(scanner).delimiter
                IN  \/ DelimiterAt(d, last'.end - Len(CString(d)))
                    \/ DelimiterAt(d, last'.end) ]_vars

\* a heredoc was removed by a HEREDOC_END, after a body scan that stopped
\* at an expansion
C16_EndAfterExpansion ==
    /\ Emitted(last, "HEREDOC_END")
    /\ Len(hist.ended) > 0
    /\ input.name = "heredoc_expansion"

HeredocTokens ==
    { "HEREDOC_BODY_BEGINNING", "SIMPLE_HEREDOC_BODY", "HEREDOC_CONTENT",
      "HEREDOC_END" }

\* a line of the text at or after position p starts with the delimiter d
DelimiterLineFrom(d, p) ==
    \E q \in p..TextLen : (q = 0 \/ TextAt(q) = "\n") /\ DelimiterAt(d, q)

\* C18: a scan call made with a heredoc pending, that reaches the end of
\* the input when no line from the start of the call on begins with the
\* delimiter of that heredoc, returns false: it emits no body token and no
\* end token.
C18_EofInBody ==
    [][ ( /\ last'.kind = "scan"
          /\ Len(scanner.heredocs) > 0
          /\ last'.reached = TextLen
          /\ ~ DelimiterLineFrom(BackHeredoc(scanner).delimiter, last'.start) )
          => ~ (last'.ret /\ last'.sym \in HeredocTokens) ]_vars

\* the contexts a pop may expect
ExpectedContexts ==
    { CTX_NONE, CTX_PARAMETER, CTX_ARITHMETIC, CTX_COMMAND, CTX_TEST,
      CTX_BRACE_EXPANSION, CTX_PARAMETER_PATTERN_SUFFIX,
      CTX_PARAMETER_PATTERN_SUBSTITUTE }

\* the scanner sc after a pop of its context stack
AfterPop(sc) ==
    [sc EXCEPT !.context_stack = IF Len(@) = 0 THEN @ ELSE Popped(@)]

\* C19: a context pop, whatever context it expects, removes the top entry
\* of a non-empty stack and nothing else, and leaves an empty stack empty;
\* so does the pop of a scan call that emits CLOSING_PAREN or
\* CLOSING_DOUBLE_PAREN, whether or not the top is the ARITHMETIC it expects.
C19_PopTop ==
    [][ /\ \A c \in ExpectedContexts : exit_context(scanner, c) = AfterPop(scanner)
        /\ ( last'.kind = "scan" /\ last'.ret
             /\ last'.sym \in {"CLOSING_PAREN", "CLOSING_DOUBLE_PAREN"} )
              => scanner'.context_stack = AfterPop(scanner).context_stack
      ]_vars

\* a `)` of $($(a)), a text with no `((`, was emitted as CLOSING_PAREN and
\* left COMMAND on the stack: the entry it popped was not the ARITHMETIC
\* that the handler expects
C19_MismatchedPop ==
    /\ input.name = "nested_command"
    /\ Emitted(last, "CLOSING_PAREN")
    /\ scanner.context_stack = <<CTX_COMMAND>>

\* the parentheses open after the first n characters of the text, innermost
\* last: "command" for the `(` of a `$(`, "plain" for any other `(`
RECURSIVE OpenParens(_, _, _)
OpenParens(i, n, open) ==
    IF i > n THEN open
    ELSE IF TextAt(i) = "("
    THEN OpenParens(i + 1, n,
                    Append(open, IF i > 1 /\ TextAt(i - 1) = "$"
                                 THEN "command" ELSE "plain"))
    ELSE IF TextAt(i) = ")" /\ Len(open) > 0
    THEN OpenParens(i + 1, n, Popped(open))
    ELSE OpenParens(i + 1, n, open)

\* C20: in the parse of a text made of command substitutions and plain
\* parentheses, the COMMAND entries of the context stack are the `$(` that
\* are still open: an OPENING_PAREN right after BARE_DOLLAR pushes COMMAND,
\* the `)` that matches it pops it, and a plain `(`...`)` pair changes nothing.
C20_CommandUntilMatch ==
    ( /\ input.name \in {"command", "nested_command", "subshell"}
      /\ last.kind = "scan" /\ last.ret /\ ~ perr )
        => CountOf(scanner.context_stack, CTX_COMMAND)
              = CountOf(OpenParens(1, pos, <<>>), "command")

\* C21: a scan call that emits CLOSING_PAREN pops the top context when that
\* top is ARITHMETIC, and leaves the context stack as it was when the top is
\* any other context or the stack is empty.
C21_ParenPopsArithmetic ==
    [][ Emitted(last', "CLOSING_PAREN")
          => scanner'.context_stack
                = IF get_current_context(scanner) = CTX_ARITHMETIC
                  THEN Popped(scanner.context_stack)
                  ELSE scanner.context_stack ]_vars

\* the number of `((` among the first n characters of the text that no `))`
\* among them has closed
RECURSIVE OpenDoubleParens(_, _, _)
OpenDoubleParens(i, n, open) ==
    IF i + 1 > n THEN open
    ELSE IF TextAt(i) = "(" /\ TextAt(i + 1) = "("
    THEN OpenDoubleParens(i + 2, n, open + 1)
    ELSE IF TextAt(i) = ")" /\ TextAt(i + 1) = ")" /\ open > 0
    THEN OpenDoubleParens(i + 2, n, open - 1)
    ELSE OpenDoubleParens(i + 1, n, open)

\* C22: in the parse of $((1)) and of ((1)), the ARITHMETIC entries of the
\* context stack are the `((` that are still open: the double opening
\* parenthesis pushes ARITHMETIC, with or without `$`, and the matching `))`
\* pops it, which leaves the stack as it was before the opener.
C22_DoubleParenPairs ==
    ( /\ input.name \in {"arithmetic", "bare_arithmetic"}
      /\ last.kind # "none" /\ ~ perr )
        => CountOf(scanner.context_stack, CTX_ARITHMETIC)
              = OpenDoubleParens(1, pos, 0)

\* C23: a scan call that emits OPENING_BRACKET right after BARE_DOLLAR pushes
\* ARITHMETIC, and a scan call that emits CLOSING_BRACKET when ARITHMETIC is
\* on top pops it, so that the stack after $[ expr ] is the stack before it.
C23_BracketPairs ==
    [][ /\ ( Emitted(last', "OPENING_BRACKET")
             /\ scanner.just_returned_bare_dollar )
              => scanner'.context_stack
                    = Append(scanner.context_stack, CTX_ARITHMETIC)
        /\ ( Emitted(last', "CLOSING_BRACKET")
             /\ get_current_context(scanner) = CTX_ARITHMETIC )
              => scanner'.context_stack = Popped(scanner.context_stack)
      ]_vars

\* C24: a scan call that returns true reports a token that is valid in the
\* valid set of that call.
C24_ReportsValidToken ==
    [][ \A v \in ValidSets :
          Scan(v) /\ last'.ret => last'.sym \in v ]_vars

\* the position after the run of newlines that starts right after position p
RECURSIVE AfterNewlines(_)
AfterNewlines(p) ==
    IF p < TextLen /\ TextAt(p + 1) = "\n" THEN AfterNewlines(p + 1) ELSE p

\* C25: a scan call with NEWLINE valid and ERROR_RECOVERY not valid, made
\* where the next character is a newline, returns true with NEWLINE, and
\* the token ends after the whole run of newlines.
C25_NewlineFirst ==
    [][ \A v \in ValidSets :
          ( /\ "NEWLINE" \in v /\ "ERROR_RECOVERY" \notin v
            /\ pos < TextLen /\ TextAt(pos + 1) = "\n"
            /\ Scan(v) )
            => /\ Emitted(last', "NEWLINE")
               /\ last'.end = AfterNewlines(pos) ]_vars

C26_ExtraBrace ==
    /\ last.kind = "scan" /\ ~ last.ret
    /\ last.start < TextLen /\ TextAt(last.start + 1) = "}"
    /\ scanner.context_stack = <<>>

\* C27: PATTERN_START and PATTERN_SUFFIX_START are emitted only when the top
\* context is PARAMETER and the next character is not `}`, and the emission
\* replaces that top by PARAM_PATTERN_SUBSTITUTE, respectively
\* PARAM_PATTERN_SUFFIX: the stack keeps its depth and its lower entries.
C27_PatternTransition ==
    [][ \A t \in {"PATTERN_START", "PATTERN_SUFFIX_START"} :
          Emitted(last', t)
            => /\ get_current_context(scanner) = CTX_PARAMETER
               /\ last'.end < TextLen => TextAt(last'.end + 1) # "}"
               /\ Len(scanner'.context_stack) = Len(scanner.context_stack)
               /\ scanner'.context_stack
                    = [ scanner.context_stack
                          EXCEPT ![Len(scanner.context_stack)]
                                   = IF t = "PATTERN_START"
                                     THEN CTX_PARAMETER_PATTERN_SUBSTITUTE
                                     ELSE CTX_PARAMETER_PATTERN_SUFFIX ] ]_vars

\* C28: after any scan call, just_returned_bare_dollar is true exactly when
\* that call emitted BARE_DOLLAR, and just_returned_variable_name is true
\* exactly when that call emitted VARIABLE_NAME.
C28_FlagsFollowEmission ==
    last.kind = "scan"
        => /\ scanner.just_returned_bare_dollar <=> Emitted(last, "BARE_DOLLAR")
           /\ scanner.just_returned_variable_name
                <=> Emitted(last, "VARIABLE_NAME")

\* C29: a scan call that emits BRACE_START pushes PARAMETER when the call
\* just before it was the scan call that emitted BARE_DOLLAR, and leaves the
\* context stack unchanged in any other position, the range form {N..M}
\* included; a scan call at `{` in any other position adds no PARAMETER.
C29_BracePush ==
    [][ LET after_dollar == last.kind = "scan" /\ Emitted(last, "BARE_DOLLAR")
        IN  /\ Emitted(last', "BRACE_START")
                 => scanner'.context_stack
                       = IF after_dollar
                         THEN Append(scanner.context_stack, CTX_PARAMETER)
                         ELSE scanner.context_stack
            /\ ( /\ last'.kind = "scan" /\ ~ after_dollar
                 /\ last'.start < TextLen /\ TextAt(last'.start + 1) = "{" )
                 => CountOf(scanner'.context_stack, CTX_PARAMETER)
                       <= CountOf(scanner.context_stack, CTX_PARAMETER)
      ]_vars

\* BRACE_START was emitted for the `{` of a range and no context is open
C29_RangeStart ==
    /\ Emitted(last, "BRACE_START")
    /\ input.name = "range"
    /\ last.start = 0
    /\ scanner.context_stack = <<>>

\* BRACE_START was emitted for the `{` of `${` and pushed PARAMETER
C29_DollarBrace ==
    /\ Emitted(last, "BRACE_START")
    /\ last.after = "BARE_DOLLAR"
    /\ scanner.context_stack = << CTX_PARAMETER >>

\* the characters and situations that separate two words: whitespace, the
\* end of the text, a redirection or control operator, a `)` or `]` that can
\* close, a `}` inside a parameter or brace context, and `[` directly after
\* a variable name
Separates(c, v, sc) ==
    \/ c = NUL
    \/ c \in {" ", "\t", "\n"}
    \/ c \in {"<", ">", "(", ";", "&", "|"}
    \/ c = ")" /\ "CLOSING_PAREN" \in v
    \/ c = "]" /\ "CLOSING_BRACKET" \in v
    \/ c = "}" /\ get_current_context(sc)
                     \in ParameterContexts \cup {CTX_BRACE_EXPANSION}
    \/ c = "[" /\ sc.just_returned_variable_name

\* C30: CONCAT is never emitted by a scan call whose next character is a
\* separator.
C30_ConcatNotAtSeparator ==
    [][ \A v \in ValidSets :
          ( /\ "CONCAT" \in v
            /\ Separates(IF pos < TextLen THEN TextAt(pos + 1) ELSE NUL,
                         v, scanner)
            /\ Scan(v) )
            => ~ Emitted(last', "CONCAT") ]_vars

\* the text after position p reads `<<<` or `<<=`
HereStringAt(p) ==
    /\ p + 3 <= TextLen
    /\ TextAt(p + 1) = "<"
    /\ TextAt(p + 2) = "<"
    /\ TextAt(p + 3) \in {"<", "="}

\* C31: a scan call that emits HEREDOC_ARROW or HEREDOC_ARROW_DASH appends
\* exactly one heredoc record, not started, not raw, with an empty delimiter,
\* whose allows_indent tells that `<<-` was scanned; a scan call at `<<<` or
\* `<<=` emits neither token and appends nothing.
C31_ArrowAppends ==
    [][ /\ \A t \in {"HEREDOC_ARROW", "HEREDOC_ARROW_DASH"} :
             Emitted(last', t)
               => /\ scanner'.heredocs
                       = Append(scanner.heredocs,
                                [ heredoc_new EXCEPT
                                    !.allows_indent = (t = "HEREDOC_ARROW_DASH") ])
                  /\ (t = "HEREDOC_ARROW_DASH")
                       <=> ( /\ last'.end >= 3
                             /\ TextAt(last'.end) = "-"
                             /\ TextAt(last'.end - 1) = "<"
                             /\ TextAt(last'.end - 2) = "<" )
        /\ ( /\ last'.kind = "scan"
             /\ \/ HereStringAt(last'.start)
                \/ /\ last'.start < TextLen
                   /\ TextAt(last'.start + 1) = " "
                   /\ HereStringAt(last'.start + 1) )
               => /\ ~ Emitted(last', "HEREDOC_ARROW")
                  /\ ~ Emitted(last', "HEREDOC_ARROW_DASH")
                  /\ scanner'.heredocs = scanner.heredocs ]_vars

\* a scan call at `<<<` or `<<=` returned false
C31_HereStringDeclined ==
    /\ last.kind = "scan" /\ ~ last.ret
    /\ HereStringAt(last.start)
    /\ scanner.heredocs = <<>>

\* `<<-` was scanned and its record allows indentation
C31_DashArrow ==
    /\ Emitted(last, "HEREDOC_ARROW_DASH")
    /\ Len(scanner.heredocs) = 1
    /\ scanner.heredocs[1].allows_indent
    /\ ~ scanner.heredocs[1].started

\* position q is the start of a line, or, when indentation is allowed, is
\* separated from the start of its line by whitespace only
LineStartBefore(q, indent) ==
    \/ q = 0
    \/ TextAt(q) = "\n"
    \/ /\ indent
       /\ \E r \in 0..q :
            /\ r = 0 \/ TextAt(r) = "\n"
            /\ \A i \in (r + 1)..q : TextAt(i) \in {" ", "\t"}

\* the delimiter d makes up a whole line of the text, from position q on
DelimiterLineAt(d, q, indent) ==
    /\ DelimiterAt(d, q)
    /\ LineStartBefore(q, indent)
    /\ LET e == q + Len(CString(d))
       IN  e = TextLen \/ TextAt(e + 1) = "\n"

\* C32: a scan call ends a heredoc (removes its record) only at a line that
\* equals the delimiter, where whitespace before the delimiter is allowed
\* only for the `<<-` form.
C32_EndAtDelimiterLine ==
    [][ ( last'.kind = "scan"
          /\ Len(scanner'.heredocs) < Len(scanner.heredocs) )
          => LET h == BackHeredoc(scanner)
             IN  \E q \in { last'.end - Len(CString(h.delimiter)), last'.end } :
                    DelimiterLineAt(h.delimiter, q, h.allows_indent) ]_vars

\* C33: HEREDOC_BODY_BEGINNING and SIMPLE_HEREDOC_BODY are emitted only by a
\* scan call made while the current heredoc is not started, HEREDOC_CONTENT
\* only by one made while it is started, and a heredoc record goes from not
\* started to started only in a scan call that emits HEREDOC_BODY_BEGINNING.
C33_StartedGates ==
    [][ last'.kind = "scan"
          => /\ ( \/ Emitted(last', "HEREDOC_BODY_BEGINNING")
                  \/ Emitted(last', "SIMPLE_HEREDOC_BODY") )
                  => /\ Len(scanner.heredocs) > 0
                     /\ ~ BackHeredoc(scanner).started
             /\ Emitted(last', "HEREDOC_CONTENT")
                  => /\ Len(scanner.heredocs) > 0
                     /\ BackHeredoc(scanner).started
             /\ ( \E i \in 1..Len(scanner.heredocs) :
                    /\ i <= Len(scanner'.heredocs)
                    /\ ~ scanner.heredocs[i].started
                    /\ scanner'.heredocs[i].started )
                  => Emitted(last', "HEREDOC_BODY_BEGINNING") ]_vars

\* the text after position p reads `-`, one or more letters, whitespace
\* and `}`
DashWordAt(p) ==
    /\ p < TextLen /\ TextAt(p + 1) = "-"
    /\ \E n \in 1..(TextLen - p) :
         /\ p + n + 3 <= TextLen
         /\ \A i \in 1..n : iswalpha(TextAt(p + 1 + i))
         /\ TextAt(p + n + 2) \in {" ", "\t"}
         /\ TextAt(p + n + 3) = "}"

C35_NoExtglobInParameter ==
    [][ Emitted(last', "EXTGLOB_PATTERN")
          => get_current_context(scanner) \notin ParameterContexts ]_vars

\* C36: whenever serialize returns a non-zero length, the context-count byte
\* and the heredoc-count byte it wrote equal the sizes of the context stack
\* and of the heredocs.
C36_CountBytes ==
    buffer.taken /\ buffer.fresh /\ buffer.len > 0
        => /\ buffer.bytes[4] = Len(scanner.context_stack)
           /\ buffer.bytes[5] = Len(scanner.heredocs)

\* C37: in every state reached from create by scan calls, each
\* PARAM_PATTERN_SUFFIX or PARAM_PATTERN_SUBSTITUTE entry of the context
\* stack lies directly above a PARAMETER entry.
C37_PatternAboveParameter ==
    \A i \in 1..Len(scanner.context_stack) :
        scanner.context_stack[i] \in { CTX_PARAMETER_PATTERN_SUFFIX,
                                       CTX_PARAMETER_PATTERN_SUBSTITUTE }
            => /\ i > 1
               /\ scanner.context_stack[i - 1] = CTX_PARAMETER

\* a pattern context is on the stack, pushed by a start of pattern
C37_PatternOpen ==
    /\ Emitted(last, "PATTERN_START") \/ Emitted(last, "PATTERN_SUFFIX_START")
    /\ Len(scanner.context_stack) >= 2
    /\ get_current_context(scanner) \in { CTX_PARAMETER_PATTERN_SUFFIX,
                                          CTX_PARAMETER_PATTERN_SUBSTITUTE }

====
